---- MODULE Spec2Model ----
(***************************************************************************)
(* Verification model of the data_agent frontend:                          *)
(*   - ChatService (services/chatService.js)                               *)
(*   - EnhancedChatInterface (components/chat/EnhancedChatInterface.js)    *)
(*   - AuthContext (login, logout), Settings, ProtectedRoute, AuthService  *)
(*     and SessionService on localStorage                                  *)
(*   - VisualizationPanel (prepareChartData, numericColumns, renderChart)  *)
(*   - DataProvider (both versions) and EnhancedFileUploader               *)
(* Each subsystem has its own specification (SpecService, SpecUI,          *)
(* SpecSession, SpecKeepAlive, SpecPing, SpecViz, SpecColor, SpecAuth,     *)
(* SpecRoute, SpecData, SpecUploader, SpecPair, SpecLoader); the variables *)
(* of the other subsystems stay at their initial values.                   *)
(***************************************************************************)
EXTENDS Integers, Sequences, FiniteSets, TLC

VARIABLES
  messageHistory,   \* ChatService.messageHistory
  calls,            \* sendMessage invocations: state, query, outcome
  messages,         \* EnhancedChatInterface: messages state
  input,            \* EnhancedChatInterface: input state
  isLoading,        \* EnhancedChatInterface: isLoading state
  error,            \* EnhancedChatInterface: error state
  dataLoaded,       \* DataContext.dataLoaded as seen by the interface
  uiSends,          \* call ids started by handleSendMessage, in order
  lastThrow,        \* exception thrown by the latest interface handler
  ifaceMounted,     \* the EnhancedChatInterface instance is mounted
  token,            \* AuthContext: token state
  isAuthenticated,  \* AuthContext: isAuthenticated state
  authLoading,      \* AuthContext: isLoading state
  logoutPending,    \* a logout() call awaits its DELETE request
  deleteLog,        \* DELETE /sessions/{id} requests sent, with the chat calls pending then
  user,             \* AuthContext: user state
  authError,        \* AuthContext: error state
  logins,           \* login invocations: state, arguments, outcome
  lsToken,          \* localStorage[config.auth.tokenKey]
  lsUser,           \* localStorage[config.auth.userKey]
  lsExpiry,         \* localStorage['session_expiry'], in time units
  now,              \* the clock (new Date()), in time units
  pingInterval,     \* SessionService.pingInterval: an interval is active
  nextPing,         \* when the active interval fires next
  timers,           \* intervals created by setInterval and not cleared
  pingsPending,     \* pingSession requests awaiting their response
  ret,              \* what the latest session query returned
  data,             \* VisualizationPanel: the data prop (rows)
  chartType,        \* VisualizationPanel: chartType state
  xAxis,            \* VisualizationPanel: xAxis state
  yAxis,            \* VisualizationPanel: yAxis state
  groupBy,          \* VisualizationPanel: groupBy state
  settingsMounted,  \* the Settings page is mounted
  selectedModel,    \* Settings: selectedModel state
  agentType,        \* Settings: agentType state
  saved,            \* Settings: saved state
  dataPreview,      \* DataProvider: dataPreview state
  dataColumns,      \* DataProvider: dataColumns state
  dpLoading,        \* DataProvider: isLoading state
  dpError,          \* DataProvider: error state
  dataReqs,         \* uploadFile and fetchDataPreview invocations and their phase
  uploaderMounted,  \* an EnhancedFileUploader instance is mounted
  uploaderId,       \* which instance it is (the mounts so far)
  files,            \* EnhancedFileUploader: a file is selected (files.length > 0)
  uploadStatus,     \* EnhancedFileUploader: uploadStatus state
  fileUploaded,     \* the onFileUploaded calls made, with their result argument
  messageHistory2,  \* messageHistory of a second ChatService instance
  calls2,           \* sendMessage invocations on the second instance
  historyCopy,      \* the array a caller got from getMessageHistory
  copyOf,           \* the instance it was taken from, or "none"
  copyAlias,        \* the array is the very array the instance keeps
  activeSession,    \* DataProvider (axios): activeSession state
  loaderLoading,    \* DataProvider (axios): isLoading state
  loaderError,      \* DataProvider (axios): error state
  loaderDataLoaded, \* DataProvider (axios): dataLoaded state
  loads,            \* loadDataFromFile invocations: phase, captured and created session
  loaderRequests,   \* the session-scoped requests sent, with the id in their URL
  routeMounted,     \* a ProtectedRoute instance is mounted
  routeId,          \* which instance it is (the mounts so far)
  isVerifying,      \* ProtectedRoute: isVerifying state
  isSessionValid,   \* ProtectedRoute: isSessionValid state
  mountEffect,      \* the effect of the instance's first render, while it is still to run
  seenDeps,         \* the AuthContext value of the render whose effect ran last
  verifies,         \* verifySession calls made by checkSession: instance, token, state
  lastVerify        \* what the latest verifySession completed for the instance reported

chatVars == <<messageHistory, calls>>
uiVars   == <<messages, input, isLoading, error, dataLoaded, uiSends, lastThrow, ifaceMounted>>
authVars == <<token, isAuthenticated, authLoading, logoutPending, deleteLog,
              user, authError, logins>>

sessVars == <<lsToken, lsUser, lsExpiry, now, pingInterval, nextPing, timers, pingsPending,
              ret>>

vizVars == <<data, chartType, xAxis, yAxis, groupBy>>

settingsVars == <<settingsMounted, selectedModel, agentType, saved>>

\* the state of the components outside chat, auth, storage and charts
dataVars == <<dataPreview, dataColumns, dpLoading, dpError, dataReqs>>
uploaderVars == <<uploaderMounted, uploaderId, files, uploadStatus, fileUploaded>>
pairVars == <<messageHistory2, calls2, historyCopy, copyOf, copyAlias>>
loaderVars == <<activeSession, loaderLoading, loaderError, loaderDataLoaded, loads,
                loaderRequests>>
routeVars == <<routeMounted, routeId, isVerifying, isSessionValid, mountEffect, seenDeps,
               verifies, lastVerify>>
appVars == <<settingsVars, dataVars, uploaderVars, pairVars, loaderVars, routeVars>>

vars == <<chatVars, uiVars, authVars, sessVars, vizVars, appVars>>

NULL == "null"

\* AuthContext.user: null, or the userData object built by login
NoUser == [sessionId |-> NULL, model |-> NULL, agentType |-> NULL]
UserData(sid, model, agent) == [sessionId |-> sid, model |-> model, agentType |-> agent]

\* the defaults of login's and createSession's parameters, and of Settings
DefaultModel == "gpt-4"
DefaultAgentType == "LangChain Agent"

\* the session ids the backend hands out, and the choices of the login form
SessionIds == {"s1", "s2"}
Models == {"gpt-4", "gpt-3.5-turbo"}
AgentTypes == {"LangChain Agent", "Custom Agent"}
Users == {UserData(sid, m, a) : sid \in SessionIds, m \in Models, a \in AgentTypes}

\* JSON.stringify(userData), the string kept in localStorage
JSONStringify(u) == "{" \o u.sessionId \o "," \o u.model \o "," \o u.agentType \o "}"

\* JSON.parse of a stored string; an object written by another caller has
\* none of the fields
JSONParse(s) ==
  IF \E u \in Users : JSONStringify(u) = s
    THEN CHOOSE u \in Users : JSONStringify(u) = s
    ELSE [sessionId |-> "", model |-> "", agentType |-> ""]

\* v || d for a string that may be undefined, null or empty
OrDefault(v, d) == IF v = NULL \/ v = "" THEN d ELSE v

----------------------------------------------------------------------------
(* Bounds *)
MaxCalls == 2

Queries == {"q1", "q2"}
ErrorMessages == {"timeout"}

----------------------------------------------------------------------------
(* ChatService *)

\* Responses the API client can hand back (api.js returns parsed JSON or text):
\* an object with a response field, an object with only a message field, an
\* object with neither, a non-empty text body, and a falsy body ("" or null).
Responses ==
  { [kind |-> "object", response |-> "answer", message |-> "", visualization |-> "", visualization_code |-> ""],
    [kind |-> "object", response |-> "", message |-> "note", visualization |-> "<div/>", visualization_code |-> "code"],
    [kind |-> "object", response |-> "", message |-> "", visualization |-> "", visualization_code |-> ""],
    [kind |-> "text", response |-> "", message |-> "", visualization |-> "", visualization_code |-> ""],
    [kind |-> "falsy", response |-> "", message |-> "", visualization |-> "", visualization_code |-> ""] }

\* JS truthiness of a response: only the empty body is falsy.
Truthy(r) == r.kind # "falsy"

\* a || b on strings: "" is falsy
OrElse(a, b) == IF a # "" THEN a ELSE b

\* response.response || response.message || response
MessageContent(r) ==
  IF r.kind = "object"
    THEN OrElse(r.response, OrElse(r.message, "[object Object]"))
    ELSE "plain text"

\* response.visualization || null
OrNull(s) == IF s # "" THEN s ELSE NULL

UserEntry(q, c) ==
  [content |-> q, sender |-> "user", isError |-> FALSE,
   visualization |-> NULL, visualization_code |-> NULL, call |-> c]

AssistantEntry(r, c) ==
  [content |-> MessageContent(r), sender |-> "assistant", isError |-> FALSE,
   visualization |-> OrNull(r.visualization),
   visualization_code |-> OrNull(r.visualization_code), call |-> c]

ErrorEntry(e, c) ==
  [content |-> "Error: " \o e, sender |-> "system", isError |-> TRUE,
   visualization |-> NULL, visualization_code |-> NULL, call |-> c]

\* sendMessage up to its await: push the user entry, issue the POST.
SendMessageStart(c, q) ==
  /\ messageHistory' = Append(messageHistory, UserEntry(q, c))
  /\ calls' = Append(calls, [st |-> "pending", query |-> q, outcome |-> ""])

\* sendMessage after the await, request succeeded.
SendMessageFulfil(c, r) ==
  /\ messageHistory' = IF Truthy(r)
                         THEN Append(messageHistory, AssistantEntry(r, c))
                         ELSE messageHistory
  /\ calls' = [calls EXCEPT ![c].st = "fulfilled", ![c].outcome = r.kind]

\* variant: the catch block writes the error over the latest entry
SendMessageReject_Overwrite(c, e) ==
  /\ messageHistory' = IF Len(messageHistory) = 0
                         THEN <<ErrorEntry(e, c)>>
                         ELSE [messageHistory EXCEPT ![Len(messageHistory)] = ErrorEntry(e, c)]
  /\ calls' = [calls EXCEPT ![c].st = "rejected", ![c].outcome = e]

\* variant: the catch block rethrows without recording the error
SendMessageReject_Silent(c, e) ==
  /\ messageHistory' = messageHistory
  /\ calls' = [calls EXCEPT ![c].st = "rejected", ![c].outcome = e]

\* sendMessage after the await, request failed: catch block, rethrow.
SendMessageReject(c, e) ==
  /\ messageHistory' = Append(messageHistory, ErrorEntry(e, c))
  /\ calls' = [calls EXCEPT ![c].st = "rejected", ![c].outcome = e]

PendingCalls == {c \in 1..Len(calls) : calls[c].st = "pending"}

\* --- actions of the service used directly (any caller) ---
SendMessage(q) ==
  /\ Len(calls) < MaxCalls
  /\ SendMessageStart(Len(calls) + 1, q)
  /\ UNCHANGED <<uiVars, authVars, sessVars, vizVars, appVars>>

Fulfil(c, r) ==
  /\ c \in PendingCalls
  /\ SendMessageFulfil(c, r)
  /\ UNCHANGED <<uiVars, authVars, sessVars, vizVars, appVars>>

Reject(c, e) ==
  /\ c \in PendingCalls
  /\ SendMessageReject(c, e)
  /\ UNCHANGED <<uiVars, authVars, sessVars, vizVars, appVars>>

clearMessageHistory ==
  /\ messageHistory' = <<>>
  /\ UNCHANGED <<calls, uiVars, authVars, sessVars, vizVars, appVars>>

\* no Settings page is mounted
InitSettingsIdle ==
  /\ settingsMounted = FALSE
  /\ selectedModel = DefaultModel
  /\ agentType = DefaultAgentType
  /\ saved = FALSE

\* the DataProvider after construction
InitDataIdle ==
  /\ dataPreview = NULL
  /\ dataColumns = <<>>
  /\ dpLoading = FALSE
  /\ dpError = NULL
  /\ dataReqs = <<>>

\* no EnhancedFileUploader is mounted
InitUploaderIdle ==
  /\ uploaderMounted = FALSE
  /\ uploaderId = 0
  /\ files = FALSE
  /\ uploadStatus = "idle"
  /\ fileUploaded = <<>>

\* no second ChatService instance is used, no history array was handed out
InitPairIdle ==
  /\ messageHistory2 = <<>>
  /\ calls2 = <<>>
  /\ historyCopy = <<>>
  /\ copyOf = "none"
  /\ copyAlias = FALSE

\* the axios DataProvider after construction
InitLoaderIdle ==
  /\ activeSession = NULL
  /\ loaderLoading = FALSE
  /\ loaderError = NULL
  /\ loaderDataLoaded = FALSE
  /\ loads = <<>>
  /\ loaderRequests = <<>>

\* what useAuth() hands to ProtectedRoute before AuthProvider has run anything
NoDeps == [isAuthenticated |-> FALSE, user |-> NoUser, token |-> NULL,
           isLoading |-> TRUE, error |-> NULL]

\* no effect of a first render is waiting
NoEffect == [due |-> FALSE, isAuthenticated |-> FALSE, token |-> NULL]

\* no ProtectedRoute is mounted
InitRouteIdle ==
  /\ routeMounted = FALSE
  /\ routeId = 0
  /\ isVerifying = TRUE
  /\ isSessionValid = FALSE
  /\ mountEffect = NoEffect
  /\ seenDeps = NoDeps
  /\ verifies = <<>>
  /\ lastVerify = "none"

InitAppIdle ==
  /\ InitSettingsIdle
  /\ InitDataIdle
  /\ InitUploaderIdle
  /\ InitPairIdle
  /\ InitLoaderIdle
  /\ InitRouteIdle

InitIdle ==
  /\ messages = <<>>
  /\ input = ""
  /\ isLoading = FALSE
  /\ error = NULL
  /\ dataLoaded = FALSE
  /\ uiSends = <<>>
  /\ lastThrow = NULL
  /\ ifaceMounted = FALSE
  /\ token = NULL
  /\ isAuthenticated = FALSE
  /\ authLoading = FALSE
  /\ logoutPending = FALSE
  /\ deleteLog = <<>>
  /\ user = NoUser
  /\ authError = NULL
  /\ logins = <<>>
  /\ InitAppIdle

NoExpiry == -1

\* localStorage is empty, no interval is active
InitStorageIdle ==
  /\ lsToken = NULL
  /\ lsUser = NULL
  /\ lsExpiry = NoExpiry
  /\ now = 0
  /\ pingInterval = FALSE
  /\ nextPing = 0
  /\ timers = 0
  /\ pingsPending = 0
  /\ ret = [op |-> "none", value |-> NULL]

\* no VisualizationPanel is mounted
InitVizIdle ==
  /\ data = <<>>
  /\ chartType = "bar"
  /\ xAxis = ""
  /\ yAxis = ""
  /\ groupBy = ""

InitService ==
  /\ messageHistory = <<>>
  /\ calls = <<>>
  /\ InitIdle
  /\ InitStorageIdle
  /\ InitVizIdle

NextService ==
  \/ \E q \in Queries : SendMessage(q)
  \/ \E c \in 1..MaxCalls, r \in Responses : Fulfil(c, r)
  \/ \E c \in 1..MaxCalls, e \in ErrorMessages : Reject(c, e)
  \/ clearMessageHistory

SpecService == InitService /\ [][NextService]_vars

----------------------------------------------------------------------------
(* EnhancedChatInterface, mounted once on a page behind ProtectedRoute;     *)
(* AuthContext.logout is offered on the Settings page.                      *)

SessionId == "s1"

\* values the text field can hold, and String.prototype.trim on them
Inputs == {"", "  ", "q1", " q2 "}
Trim(s) == CASE s = "  " -> ""
             [] s = " q2 " -> "q2"
             [] OTHER -> s

Suggestions == {"Analyze this dataset"}

\* the argument of handleSendMessage: the submit event of the form, or the
\* suggestion string passed by handleSuggestionClick
SubmitEvent == [kind |-> "event", text |-> ""]
StringArg(s) == [kind |-> "string", text |-> s]

\* e?.preventDefault(): a string is not nullish and has no preventDefault
\* member, so the call throws a TypeError
PreventDefaultThrows(e) == e.kind = "string"

\* variant: the controls stay enabled while a request is pending
inputDisabled_IgnoresLoading == ~dataLoaded

\* const inputDisabled = isLoading || !dataLoaded
inputDisabled == isLoading \/ ~dataLoaded

UserMessage(text, c) ==
  [content |-> text, sender |-> "user", isError |-> FALSE,
   visualization |-> NULL, visualization_code |-> NULL, call |-> c]

SorryMessage(c) ==
  [content |-> "Sorry, I encountered an error processing your request. Please try again.",
   sender |-> "assistant", isError |-> TRUE,
   visualization |-> NULL, visualization_code |-> NULL, call |-> c]

\* getMessageHistory(): a copy of the service's history
getMessageHistory(h) == [i \in 1..Len(h) |-> h[i]]

\* handleSendMessage(e) up to its await
handleSendMessage(e) ==
  IF PreventDefaultThrows(e)
    THEN /\ lastThrow' = "TypeError"
         /\ UNCHANGED <<chatVars, messages, input, isLoading, error, uiSends>>
    ELSE IF Trim(input) = ""
      THEN \* if (!input.trim() && e) return;  (e is a truthy event here)
           /\ lastThrow' = NULL
           /\ UNCHANGED <<chatVars, messages, input, isLoading, error, uiSends>>
      ELSE LET messageText == Trim(input)
               c == Len(calls) + 1
           IN /\ Len(calls) < MaxCalls
              /\ input' = ""
              /\ messages' = Append(messages, UserMessage(messageText, c))
              /\ isLoading' = TRUE
              /\ error' = NULL
              /\ SendMessageStart(c, messageText)
              /\ uiSends' = Append(uiSends, c)
              /\ lastThrow' = NULL

\* onChange of the text field
TypeInput(s) ==
  /\ ifaceMounted /\ dataLoaded /\ ~inputDisabled
  /\ s # input
  /\ input' = s
  /\ UNCHANGED <<chatVars, messages, isLoading, error, dataLoaded, uiSends, lastThrow,
                 ifaceMounted, authVars, sessVars, vizVars, appVars>>

\* onSubmit of the form: Enter in the enabled text field or the enabled button
SubmitForm ==
  /\ ifaceMounted /\ dataLoaded /\ ~inputDisabled
  /\ handleSendMessage(SubmitEvent)
  /\ UNCHANGED <<dataLoaded, ifaceMounted, authVars, sessVars, vizVars, appVars>>

\* onClick of a suggestion chip (rendered whenever data is loaded)
handleSuggestionClick(s) ==
  /\ ifaceMounted /\ dataLoaded
  /\ handleSendMessage(StringArg(s))
  /\ UNCHANGED <<dataLoaded, ifaceMounted, authVars, sessVars, vizVars, appVars>>

\* the request of call c succeeds: sendMessage resumes, then handleSendMessage
FulfilUI(c, r) ==
  /\ c \in PendingCalls
  /\ SendMessageFulfil(c, r)
  /\ IF ifaceMounted
       THEN /\ messages' = getMessageHistory(messageHistory')
            /\ isLoading' = FALSE
            /\ UNCHANGED error
       ELSE UNCHANGED <<messages, isLoading, error>>
  /\ UNCHANGED <<input, dataLoaded, uiSends, lastThrow, ifaceMounted, authVars, sessVars, vizVars, appVars>>

\* the request of call c fails: sendMessage rethrows, handleSendMessage catches
RejectUI(c, e) ==
  /\ c \in PendingCalls
  /\ SendMessageReject(c, e)
  /\ IF ifaceMounted
       THEN /\ error' = "Failed to get response. Please try again."
            /\ messages' = Append(messages, SorryMessage(c))
            /\ isLoading' = FALSE
       ELSE UNCHANGED <<messages, isLoading, error>>
  /\ UNCHANGED <<input, dataLoaded, uiSends, lastThrow, ifaceMounted, authVars, sessVars, vizVars, appVars>>

\* the clear button, shown while messages is not empty
handleClearChat ==
  /\ ifaceMounted /\ Len(messages) > 0
  /\ messages' = <<>>
  /\ messageHistory' = <<>>
  /\ UNCHANGED <<calls, input, isLoading, error, dataLoaded, uiSends, lastThrow,
                 ifaceMounted, authVars, sessVars, vizVars, appVars>>

\* DataProvider.uploadFile finishes: setDataLoaded(true)
SetDataLoaded ==
  /\ ~dataLoaded
  /\ dataLoaded' = TRUE
  /\ UNCHANGED <<chatVars, messages, input, isLoading, error, uiSends, lastThrow,
                 ifaceMounted, authVars, sessVars, vizVars, appVars>>

\* the Settings page mounts: useState(user?.model || 'gpt-4'), ...
SettingsMount ==
  /\ settingsMounted' = TRUE
  /\ selectedModel' = OrDefault(user.model, DefaultModel)
  /\ agentType' = OrDefault(user.agentType, DefaultAgentType)
  /\ saved' = FALSE

\* the Settings page unmounts; its state is discarded
SettingsUnmount ==
  /\ settingsMounted' = FALSE
  /\ selectedModel' = DefaultModel
  /\ agentType' = DefaultAgentType
  /\ saved' = FALSE

\* the user leaves the page: the interface unmounts; its requests stay pending
NavigateToSettings ==
  /\ ifaceMounted
  /\ ifaceMounted' = FALSE
  /\ SettingsMount
  /\ UNCHANGED <<chatVars, messages, input, isLoading, error, dataLoaded, uiSends,
                 lastThrow, authVars, sessVars, vizVars, dataVars, uploaderVars, pairVars, loaderVars, routeVars>>

\* DataProvider's effect on isAuthenticated, run when it has become false:
\* "Reset data state when user logs out"
DataReset ==
  /\ dataPreview' = NULL
  /\ dataColumns' = <<>>
  /\ dataLoaded' = FALSE

\* variant: a failed DELETE leaves the stored token and user in place
deleteSessionSettle_KeepsOnFailure(ok) ==
  IF ok THEN lsToken' = NULL /\ lsUser' = NULL
        ELSE UNCHANGED <<lsToken, lsUser>>

\* AuthService.deleteSession after its await: both the try and the catch
\* block remove the token and the user item
deleteSessionSettle(ok) ==
  IF ok THEN lsToken' = NULL /\ lsUser' = NULL
        ELSE lsToken' = NULL /\ lsUser' = NULL

\* AuthContext.logout up to its await (the Log Out button of Settings, shown
\* while user is set): the DELETE request is sent at once.  ProtectedRoute
\* replaces the page by the loader while isLoading, and by the redirect after.
logout ==
  /\ settingsMounted /\ user # NoUser /\ ~authLoading
  /\ IF token # NULL
       THEN /\ authLoading' = TRUE
            /\ deleteLog' = Append(deleteLog,
                  [session |-> token, chatPending |-> PendingCalls # {},
                   result |-> "pending"])
            /\ logoutPending' = TRUE
            /\ UNCHANGED <<token, isAuthenticated, user, dataLoaded, dataPreview,
                           dataColumns>>
       ELSE \* nothing is awaited: the finally block runs in the same step
            /\ token' = NULL
            /\ user' = NoUser
            /\ isAuthenticated' = FALSE
            /\ authLoading' = FALSE
            /\ DataReset
            /\ UNCHANGED <<deleteLog, logoutPending>>
  /\ SettingsUnmount
  /\ UNCHANGED <<authError, logins, chatVars, messages, input, isLoading, error, uiSends,
                 lastThrow, ifaceMounted, sessVars, vizVars, dpLoading, dpError, dataReqs,
                 uploaderVars, pairVars, loaderVars, routeVars>>

\* AuthContext.logout after the await: catch logs, finally clears the state
logoutSettle(ok) ==
  /\ logoutPending
  /\ logoutPending' = FALSE
  /\ deleteSessionSettle(ok)
  /\ token' = NULL
  /\ user' = NoUser
  /\ isAuthenticated' = FALSE
  /\ authLoading' = FALSE
  /\ deleteLog' = [deleteLog EXCEPT ![Len(deleteLog)].result =
                                       IF ok THEN "deleted" ELSE "failed"]
  /\ DataReset
  /\ UNCHANGED <<authError, logins, chatVars, messages, input, isLoading, error, uiSends,
                 lastThrow, ifaceMounted, lsExpiry, now, pingInterval, timers, nextPing,
                 pingsPending, ret, vizVars, settingsVars, dpLoading, dpError, dataReqs,
                 uploaderVars, pairVars, loaderVars, routeVars>>

InitUI ==
  /\ messageHistory = <<>>
  /\ calls = <<>>
  /\ messages = <<>>
  /\ input = ""
  /\ isLoading = FALSE
  /\ error = NULL
  /\ dataLoaded = FALSE
  /\ uiSends = <<>>
  /\ lastThrow = NULL
  /\ ifaceMounted = TRUE
  /\ token = SessionId
  /\ isAuthenticated = TRUE
  /\ authLoading = FALSE
  /\ logoutPending = FALSE
  /\ deleteLog = <<>>
  /\ user = UserData(SessionId, DefaultModel, DefaultAgentType)
  /\ authError = NULL
  /\ logins = <<>>
  /\ InitAppIdle
  /\ lsToken = SessionId
  /\ lsUser = JSONStringify(UserData(SessionId, DefaultModel, DefaultAgentType))
  /\ lsExpiry = NoExpiry
  /\ now = 0
  /\ pingInterval = FALSE
  /\ nextPing = 0
  /\ timers = 0
  /\ pingsPending = 0
  /\ ret = [op |-> "none", value |-> NULL]
  /\ InitVizIdle

NextUI ==
  \/ \E s \in Inputs : TypeInput(s)
  \/ SubmitForm
  \/ \E s \in Suggestions : handleSuggestionClick(s)
  \/ \E c \in 1..MaxCalls, r \in Responses : FulfilUI(c, r)
  \/ \E c \in 1..MaxCalls, e \in ErrorMessages : RejectUI(c, e)
  \/ handleClearChat
  \/ SetDataLoaded
  \/ NavigateToSettings
  \/ logout
  \/ \E ok \in BOOLEAN : logoutSettle(ok)

SpecUI == InitUI /\ [][NextUI]_vars

----------------------------------------------------------------------------
(* Properties of ChatService and EnhancedChatInterface *)

IsPrefix(s, t) == Len(s) <= Len(t) /\ \A i \in 1..Len(s) : t[i] = s[i]

\* the entries of messageHistory recorded by call c, in order
EntriesOf(c) == SelectSeq(messageHistory, LAMBDA m : m.call = c)

\* C1: the entries one sendMessage call records are adjacent in
\* messageHistory; no entry of another call lies between them.
C1_NoInterleaving ==
  \A i, j \in 1..Len(messageHistory) :
    (i < j /\ messageHistory[i].call = messageHistory[j].call)
      => \A k \in i..j : messageHistory[k].call = messageHistory[i].call

C3_AppendOnly ==
  [][clearMessageHistory \/ IsPrefix(messageHistory, messageHistory')]_vars

\* two calls, one answered and one failed, each recorded both of its entries
C3_Witness ==
  /\ Len(messageHistory) = 4
  /\ \E c \in 1..Len(calls) : calls[c].st = "rejected"
  /\ \E c \in 1..Len(calls) : calls[c].st = "fulfilled"

\* what a step of call c must do to the history
C4_StepOK(c) ==
  /\ (c = Len(calls) + 1 /\ Len(calls') = c)
       => /\ calls'[c].st = "pending"
          /\ Len(messageHistory') = Len(messageHistory) + 1
          /\ IsPrefix(messageHistory, messageHistory')
          /\ messageHistory'[Len(messageHistory')].sender = "user"
          /\ messageHistory'[Len(messageHistory')].content = calls'[c].query
  /\ (c <= Len(calls) /\ calls[c].st = "pending" /\ calls'[c].st = "rejected")
       => /\ calls'[c].outcome \in ErrorMessages
          /\ Len(messageHistory') = Len(messageHistory) + 1
          /\ IsPrefix(messageHistory, messageHistory')
          /\ messageHistory'[Len(messageHistory')].sender = "system"
          /\ messageHistory'[Len(messageHistory')].isError
          /\ messageHistory'[Len(messageHistory')].content = "Error: " \o calls'[c].outcome
  /\ (c <= Len(calls) /\ calls[c].st = "pending" /\ calls'[c].st = "fulfilled"
        /\ calls'[c].outcome # "falsy")
       => /\ Len(messageHistory') = Len(messageHistory) + 1
          /\ IsPrefix(messageHistory, messageHistory')
          /\ messageHistory'[Len(messageHistory')].sender = "assistant"
          /\ ~messageHistory'[Len(messageHistory')].isError

\* the entries a failed call has in the history: its user entry followed by
\* one error entry (less what a clear removed)
C4_EntriesOK(c) ==
  LET es == EntriesOf(c) IN
  calls[c].st = "rejected" =>
    /\ Len(es) <= 2
    /\ Len(es) >= 1 => (es[Len(es)].sender = "system" /\ es[Len(es)].isError)
    /\ Len(es) = 2 => (es[1].sender = "user" /\ es[1].content = calls[c].query)

\* C4: a failing sendMessage rejects with the request's error and adds to the
\* history exactly its user entry and then one error entry (sender 'system',
\* isError), leaving earlier entries unchanged; calls made after a failure
\* record their user entry and their reply as usual.
C4_FailedTurn ==
  /\ [](\A c \in 1..Len(calls) : C4_EntriesOK(c))
  /\ [][\A c \in 1..MaxCalls : C4_StepOK(c)]_vars

\* a call failed, and the next call was made afterwards and answered
C4_Witness ==
  /\ Len(messageHistory) = 4
  /\ messageHistory[1].sender = "user" /\ messageHistory[1].call = 1
  /\ messageHistory[2].sender = "system" /\ messageHistory[2].call = 1
  /\ messageHistory[3].sender = "user" /\ messageHistory[3].call = 2
  /\ messageHistory[4].sender = "assistant" /\ messageHistory[4].call = 2
  /\ calls[1].st = "rejected" /\ calls[2].st = "fulfilled"

\* C5: every DELETE request for a session is sent while no chat request for
\* that session is pending.
C5_DeleteDeferred ==
  \A i \in 1..Len(deleteLog) : ~deleteLog[i].chatPending

----------------------------------------------------------------------------
(* SessionService and AuthService on localStorage.  One time unit is ten    *)
(* minutes.                                                                 *)

\* config.auth.sessionTimeout, in milliseconds
SessionTimeoutMs == 3600000
MsPerUnit == 10 * 60 * 1000
MinutesPerUnit == MsPerUnit \div (60 * 1000)

\* the period of the ping interval: this.sessionTimeoutMs / 2
PingPeriod == (SessionTimeoutMs \div 2) \div MsPerUnit

\* the default of the expiryMinutes parameter of setSession and refreshSession
DefaultExpiryMinutes == 60

\* expiryMinutes values callers pass to setSession
ExpiryMinutes == {10, DefaultExpiryMinutes}

\* the clock is followed up to here
MaxTime == 8

\* expiry.setMinutes(expiry.getMinutes() + expiryMinutes)
ExpiryAfter(minutes) == now + (minutes \div MinutesPerUnit)

\* if (!token || !userData) in getSession and getCurrentSession
StoredPresent == lsToken # NULL /\ lsUser # NULL

\* session.expiry && new Date() > session.expiry
StoredExpired == lsExpiry # NoExpiry /\ now > lsExpiry

\* what SessionService.getSession returns in the current state
getSessionValue ==
  IF ~StoredPresent THEN NULL
  ELSE IF StoredExpired THEN NULL
  ELSE lsToken

\* what AuthService.getCurrentSession returns in the current state
getCurrentSessionValue ==
  IF ~StoredPresent THEN NULL ELSE lsToken

\* SessionService.isAuthenticated: !!this.getSession()
sessionIsAuthenticatedValue == getSessionValue # NULL

\* AuthService.isAuthenticated: !!this.getCurrentSession()
authIsAuthenticatedValue == getCurrentSessionValue # NULL

\* variant: stopSessionPing forgets the handle without clearInterval
TimersAfterStop_HandleOnly == timers

\* stopSessionPing: if (this.pingInterval) clearInterval(this.pingInterval)
TimersAfterStop == IF pingInterval THEN timers - 1 ELSE timers

\* clearSession: remove the three items, stopSessionPing
clearSessionEffect ==
  /\ lsToken' = NULL
  /\ lsUser' = NULL
  /\ lsExpiry' = NoExpiry
  /\ pingInterval' = FALSE
  /\ nextPing' = 0
  /\ timers' = TimersAfterStop

\* the state change of getSession: an expired stored session is cleared
getSessionEffect ==
  IF StoredPresent /\ StoredExpired
    THEN clearSessionEffect
    ELSE UNCHANGED <<lsToken, lsUser, lsExpiry, pingInterval, timers, nextPing>>

\* SessionService.setSession(token, userData, expiryMinutes)
setSession(tok, minutes) ==
  /\ lsToken' = tok
  /\ lsUser' = "user"
  /\ lsExpiry' = ExpiryAfter(minutes)
  /\ pingInterval' = TRUE       \* startSessionPing: stop, then setInterval
  /\ nextPing' = now + PingPeriod
  /\ timers' = TimersAfterStop + 1
  /\ ret' = [op |-> "setSession", value |-> tok]
  /\ UNCHANGED <<now, pingsPending, chatVars, uiVars, authVars, vizVars, appVars>>

\* SessionService.getSession()
getSession ==
  /\ ret' = [op |-> "getSession", value |-> getSessionValue]
  /\ getSessionEffect
  /\ UNCHANGED <<now, pingsPending, chatVars, uiVars, authVars, vizVars, appVars>>

\* SessionService.isAuthenticated()
sessionIsAuthenticated ==
  /\ ret' = [op |-> "isAuthenticated",
             value |-> IF sessionIsAuthenticatedValue THEN "true" ELSE "false"]
  /\ getSessionEffect
  /\ UNCHANGED <<now, pingsPending, chatVars, uiVars, authVars, vizVars, appVars>>

\* SessionService.clearSession()
clearSession ==
  /\ clearSessionEffect
  /\ ret' = [op |-> "clearSession", value |-> "true"]
  /\ UNCHANGED <<now, pingsPending, chatVars, uiVars, authVars, vizVars, appVars>>

\* the state change of refreshSession(expiryMinutes)
refreshSessionEffect(minutes) ==
  IF getSessionValue = NULL
    THEN getSessionEffect
    ELSE /\ lsExpiry' = ExpiryAfter(minutes)
         /\ UNCHANGED <<lsToken, lsUser, pingInterval, timers, nextPing>>

\* the callback of the ping interval
pingTick ==
  /\ pingInterval /\ now = nextPing
  /\ nextPing' = IF getSessionValue # NULL THEN now + PingPeriod ELSE 0
  /\ IF getSessionValue # NULL
       THEN /\ pingsPending' = pingsPending + 1
            /\ UNCHANGED <<lsToken, lsUser, lsExpiry, pingInterval, timers>>
       ELSE \* getSession cleared an expired session; stopSessionPing
            /\ pingInterval' = FALSE
            /\ timers' = TimersAfterStop
            /\ IF StoredPresent /\ StoredExpired
                 THEN lsToken' = NULL /\ lsUser' = NULL /\ lsExpiry' = NoExpiry
                 ELSE UNCHANGED <<lsToken, lsUser, lsExpiry>>
            /\ UNCHANGED pingsPending
  /\ UNCHANGED <<now, ret, chatVars, uiVars, authVars, vizVars, appVars>>

\* the response of a pingSession request: refreshSession() on success
pingResponse(success) ==
  /\ pingsPending > 0
  /\ pingsPending' = pingsPending - 1
  /\ IF success
       THEN refreshSessionEffect(DefaultExpiryMinutes)
       ELSE UNCHANGED <<lsToken, lsUser, lsExpiry, pingInterval, timers, nextPing>>
  /\ UNCHANGED <<now, ret, chatVars, uiVars, authVars, vizVars, appVars>>

\* AuthService.getCurrentSession()
getCurrentSession ==
  /\ ret' = [op |-> "getCurrentSession", value |-> getCurrentSessionValue]
  /\ UNCHANGED <<lsToken, lsUser, lsExpiry, now, pingInterval, timers, nextPing, pingsPending,
                 chatVars, uiVars, authVars, vizVars, appVars>>

\* AuthProvider's mount effect: initializeAuth().  It is still to run while
\* isLoading holds its initial true (no login or logout has set it).
initializeAuth ==
  /\ authLoading /\ ~logoutPending
  /\ \A c \in 1..Len(logins) : logins[c].st # "pending"
  /\ IF getCurrentSessionValue # NULL
       THEN /\ token' = getCurrentSessionValue
            /\ user' = JSONParse(lsUser)
            /\ isAuthenticated' = TRUE
       ELSE UNCHANGED <<token, user, isAuthenticated>>
  /\ authLoading' = FALSE
  /\ UNCHANGED <<logoutPending, deleteLog, authError, logins, sessVars, chatVars, uiVars,
                 vizVars, appVars>>

\* the page is loaded again: AuthProvider is constructed anew
reloadPage ==
  /\ ~authLoading
  /\ token' = NULL
  /\ user' = NoUser
  /\ isAuthenticated' = FALSE
  /\ authLoading' = TRUE
  /\ authError' = NULL
  /\ UNCHANGED <<logoutPending, deleteLog, logins, sessVars, chatVars, uiVars, vizVars,
                 appVars>>

\* time passes; an interval that is due fires first
tick ==
  /\ now < MaxTime
  /\ ~(pingInterval /\ now = nextPing)
  /\ now' = now + 1
  /\ UNCHANGED <<lsToken, lsUser, lsExpiry, pingInterval, timers, nextPing, pingsPending, ret,
                 chatVars, uiVars, authVars, vizVars, appVars>>

InitSession ==
  /\ messageHistory = <<>>
  /\ calls = <<>>
  /\ messages = <<>>
  /\ input = ""
  /\ isLoading = FALSE
  /\ error = NULL
  /\ dataLoaded = FALSE
  /\ uiSends = <<>>
  /\ lastThrow = NULL
  /\ ifaceMounted = FALSE
  /\ token = NULL
  /\ isAuthenticated = FALSE
  /\ authLoading = TRUE
  /\ logoutPending = FALSE
  /\ deleteLog = <<>>
  /\ user = NoUser
  /\ authError = NULL
  /\ logins = <<>>
  /\ InitAppIdle
  /\ InitStorageIdle
  /\ InitVizIdle

NextSession ==
  \/ \E m \in ExpiryMinutes : setSession(SessionId, m)
  \/ getSession
  \/ sessionIsAuthenticated
  \/ clearSession
  \/ pingTick
  \/ \E ok \in BOOLEAN : pingResponse(ok)
  \/ getCurrentSession
  \/ initializeAuth
  \/ reloadPage
  \/ tick

SpecSession == InitSession /\ [][NextSession]_vars

\* C6: once the stored expiry is in the past, no session query reports a
\* session: getSession and getCurrentSession return null, both
\* isAuthenticated queries return false.
C6_ExpiredNeverReported ==
  (StoredPresent /\ StoredExpired) =>
    /\ getSessionValue = NULL
    /\ ~sessionIsAuthenticatedValue
    /\ getCurrentSessionValue = NULL
    /\ ~authIsAuthenticatedValue

----------------------------------------------------------------------------
(* VisualizationPanel *)

\* JavaScript values of data cells and chart entries
Num(n) == [t |-> "num", n |-> n, s |-> ""]
Str(str) == [t |-> "str", n |-> 0, s |-> str]
NaN == [t |-> "nan", n |-> 0, s |-> ""]
Null == [t |-> "null", n |-> 0, s |-> ""]

\* at most this many rows in the data prop
MaxRows == 2

\* the columns of the data sets, and the values their cells take
Columns == <<"x", "y", "g">>
XValues == {Str("A"), Str("B")}
YValues == {Num(5), Num(10), Str("n/a"), Null}
GValues == {Str("g1"), Str("x"), Num(7)}

\* strings that parse as numbers, with their value
NumericStrings == {"20"}
ParseString(str) == IF str = "20" THEN 20 ELSE 0

\* Number(v)
Number(v) ==
  CASE v.t = "num" -> v
    [] v.t = "nan" -> NaN
    [] v.t = "null" -> Num(0)
    [] v.t = "str" -> IF v.s = "" THEN Num(0)
                      ELSE IF v.s \in NumericStrings THEN Num(ParseString(v.s))
                      ELSE NaN

\* isNaN(v) for a number value
isNaN(v) == v.t = "nan"

\* a + b on number values
Plus(a, b) == IF a.t = "nan" \/ b.t = "nan" THEN NaN ELSE Num(a.n + b.n)

\* !v for a number value: 0 and NaN are falsy
NotNumber(v) == v.t = "nan" \/ (v.t = "num" /\ v.n = 0)

\* the property key a value is converted to
ToKey(v) ==
  CASE v.t = "num" -> ToString(v.n)
    [] v.t = "nan" -> "NaN"
    [] v.t = "null" -> "null"
    [] v.t = "str" -> v.s

\* JavaScript objects: own keys in insertion order, and their values
EmptyObj == [keys |-> <<>>, val |-> <<>>]
Has(o, k) == k \in DOMAIN o.val
Put(o, k, v) ==
  [keys |-> IF Has(o, k) THEN o.keys ELSE Append(o.keys, k),
   val |-> (k :> v) @@ o.val]

\* numbers whose decimal form occurs as a key (integer-like keys)
IndexNumbers == 0..20
IsIndexKey(k) == \E n \in IndexNumbers : ToString(n) = k

RECURSIVE Ascending(_)
Ascending(S) ==
  IF S = {} THEN <<>>
  ELSE LET m == CHOOSE a \in S : \A b \in S : a <= b
       IN <<ToString(m)>> \o Ascending(S \ {m})

\* Object.keys(o): integer-like keys ascending, then the others as inserted
ObjectKeys(o) ==
  Ascending({n \in IndexNumbers : Has(o, ToString(n))})
    \o SelectSeq(o.keys, LAMBDA k : ~IsIndexKey(k))

\* const columns = data && data.length > 0 ? Object.keys(data[0]) : []
columns == IF Len(data) > 0 THEN Columns ELSE <<>>

\* data.some(row => row[col] !== null && !isNaN(Number(row[col])))
IsNumericColumn(col) ==
  \E i \in 1..Len(data) : data[i][col] # Null /\ ~isNaN(Number(data[i][col]))

numericColumns == SelectSeq(columns, IsNumericColumn)

InSeq(e, sq) == \E i \in 1..Len(sq) : sq[i] = e

\* !numericColumns.includes(col) || data.some(string value)
IsCategoricalColumn(col) ==
  \/ ~InSeq(col, numericColumns)
  \/ \E i \in 1..Len(data) : data[i][col] # Null /\ data[i][col].t = "str"

categoricalColumns == SelectSeq(columns, IsCategoricalColumn)

\* the forEach of the grouped branch, from row i on
RECURSIVE GroupRows(_, _)
GroupRows(i, groupedData) ==
  IF i > Len(data) THEN groupedData
  ELSE LET row == data[i]
           xValue == ToKey(row[xAxis])
           yValue == Number(row[yAxis])
           groupValue == ToKey(row[groupBy])
           g1 == IF ~Has(groupedData, xValue)
                   THEN Put(groupedData, xValue, EmptyObj)
                   ELSE groupedData
           inner1 == IF ~Has(g1.val[xValue], groupValue)
                        \/ NotNumber(g1.val[xValue].val[groupValue])
                       THEN Put(g1.val[xValue], groupValue, Num(0))
                       ELSE g1.val[xValue]
           inner2 == Put(inner1, groupValue, Plus(inner1.val[groupValue], yValue))
       IN GroupRows(i + 1, Put(g1, xValue, inner2))

\* entry[group] = groupedData[x][group] for the groups from position j on
RECURSIVE FillEntry(_, _, _, _)
FillEntry(entry, inner, ks, j) ==
  IF j > Len(ks) THEN entry
  ELSE FillEntry(Put(entry, ks[j], inner.val[ks[j]]), inner, ks, j + 1)

\* the forEach of the ungrouped branch, from row i on
RECURSIVE AggregateRows(_, _)
AggregateRows(i, aggregatedData) ==
  IF i > Len(data) THEN aggregatedData
  ELSE LET row == data[i]
           xValue == ToKey(row[xAxis])
           yValue == Number(row[yAxis])
           a1 == IF ~Has(aggregatedData, xValue)
                    \/ NotNumber(aggregatedData.val[xValue])
                   THEN Put(aggregatedData, xValue, Num(0))
                   ELSE aggregatedData
       IN AggregateRows(i + 1, Put(a1, xValue, Plus(a1.val[xValue], yValue)))

\* prepareChartData()
prepareChartData ==
  IF xAxis = "" \/ yAxis = "" THEN <<>>
  ELSE IF groupBy # ""
    THEN LET groupedData == GroupRows(1, EmptyObj)
             ks == ObjectKeys(groupedData)
         IN [j \in 1..Len(ks) |->
              FillEntry(Put(EmptyObj, xAxis, Str(ks[j])), groupedData.val[ks[j]],
                        ObjectKeys(groupedData.val[ks[j]]), 1)]
    ELSE LET aggregatedData == AggregateRows(1, EmptyObj)
             ks == ObjectKeys(aggregatedData)
         IN [j \in 1..Len(ks) |->
              Put(Put(EmptyObj, xAxis, Str(ks[j])), yAxis, aggregatedData.val[ks[j]])]

chartData == prepareChartData

\* the palette
COLORS == <<"#6366f1", "#8b5cf6", "#ec4899", "#f43f5e",
            "#f97316", "#eab308", "#22c55e", "#06b6d4">>

\* COLORS[index % COLORS.length], index counted from 0
ColorAt(index) == COLORS[(index % Len(COLORS)) + 1]

\* variant: the values of a sequence without repetition, in last-seen order
RECURSIVE DistinctInOrder_LastSeen(_)
DistinctInOrder_LastSeen(sq) ==
  IF Len(sq) = 0 THEN <<>>
  ELSE LET rest == DistinctInOrder_LastSeen(Tail(sq))
       IN IF InSeq(Head(sq), rest) THEN rest ELSE <<Head(sq)>> \o rest

\* Array.from(new Set(sq)): the values without repetition, in insertion order
RECURSIVE SetInsert(_, _)
SetInsert(sq, acc) ==
  IF Len(sq) = 0 THEN acc
  ELSE SetInsert(Tail(sq), IF InSeq(Head(sq), acc) THEN acc ELSE Append(acc, Head(sq)))

DistinctInOrder(sq) == SetInsert(sq, <<>>)

\* data.map(item => item[groupBy]) made distinct, each with its color
GroupSeries ==
  LET groups == DistinctInOrder([i \in 1..Len(data) |-> data[i][groupBy]])
  IN [k \in 1..Len(groups) |-> [dataKey |-> groups[k], color |-> ColorAt(k - 1)]]

SingleSeries(key) == <<[dataKey |-> Str(key), color |-> "#6366f1"]>>

Message(text) == [kind |-> "message", text |-> text, series |-> <<>>]
Chart(kind, series) == [kind |-> kind, text |-> "", series |-> series]

\* renderChart()
renderChart ==
  IF Len(chartData) = 0
    THEN Message("Please select valid axes to generate a visualization")
  ELSE CASE chartType = "bar" ->
              Chart("bar", IF groupBy # "" THEN GroupSeries ELSE SingleSeries(yAxis))
         [] chartType = "line" ->
              Chart("line", IF groupBy # "" THEN GroupSeries ELSE SingleSeries(yAxis))
         [] chartType = "pie" ->
              Chart("pie", [k \in 1..Len(chartData) |->
                             [dataKey |-> chartData[k].val[xAxis], color |-> ColorAt(k - 1)]])
         [] chartType = "scatter" ->
              IF ~InSeq(xAxis, numericColumns) \/ ~InSeq(yAxis, numericColumns)
                THEN Message("Scatter plots require numeric columns for both X and Y axes")
                ELSE Chart("scatter",
                           IF groupBy # "" THEN GroupSeries
                           ELSE <<[dataKey |-> Str(xAxis \o " vs " \o yAxis),
                                   color |-> "#6366f1"]>>)

\* the effect that sets the default axes is about to change a state
DefaultsDue ==
  \/ Len(columns) > 0 /\ xAxis = ""
  \/ Len(numericColumns) > 0 /\ yAxis = ""

\* React.useEffect: set default axes if not set and columns are available
defaultAxes ==
  /\ DefaultsDue
  /\ xAxis' = IF Len(columns) > 0 /\ xAxis = ""
                THEN (IF Len(categoricalColumns) > 0 THEN categoricalColumns[1] ELSE columns[1])
                ELSE xAxis
  /\ yAxis' = IF Len(numericColumns) > 0 /\ yAxis = "" THEN numericColumns[1] ELSE yAxis
  /\ UNCHANGED <<data, chartType, groupBy, chatVars, uiVars, authVars, sessVars, appVars>>

ChartTypes == {"bar", "line", "pie", "scatter"}

\* the chart type buttons
setChartType(t) ==
  /\ ~DefaultsDue /\ t # chartType
  /\ chartType' = t
  /\ UNCHANGED <<data, xAxis, yAxis, groupBy, chatVars, uiVars, authVars, sessVars, appVars>>

\* the X-Axis select: one item per column
setXAxis(col) ==
  /\ ~DefaultsDue /\ InSeq(col, columns) /\ col # xAxis
  /\ xAxis' = col
  /\ UNCHANGED <<data, chartType, yAxis, groupBy, chatVars, uiVars, authVars, sessVars, appVars>>

\* the Y-Axis select: one item per numeric column
setYAxis(col) ==
  /\ ~DefaultsDue /\ InSeq(col, numericColumns) /\ col # yAxis
  /\ yAxis' = col
  /\ UNCHANGED <<data, chartType, xAxis, groupBy, chatVars, uiVars, authVars, sessVars, appVars>>

\* the Group By select: None, or one item per categorical column
setGroupBy(col) ==
  /\ ~DefaultsDue /\ (col = "" \/ InSeq(col, categoricalColumns)) /\ col # groupBy
  /\ groupBy' = col
  /\ UNCHANGED <<data, chartType, xAxis, yAxis, chatVars, uiVars, authVars, sessVars, appVars>>

Rows == [x : XValues, y : YValues, g : GValues]

RECURSIVE SeqsUpTo(_, _)
SeqsUpTo(S, n) ==
  IF n = 0 THEN {<<>>}
  ELSE LET shorter == SeqsUpTo(S, n - 1)
       IN shorter \cup {Append(sq, e) : sq \in shorter, e \in S}

InitNoViz ==
  /\ messageHistory = <<>>
  /\ calls = <<>>
  /\ InitIdle
  /\ InitStorageIdle

\* the panel is constructed with a data set
InitViz ==
  /\ InitNoViz
  /\ data \in SeqsUpTo(Rows, MaxRows)
  /\ chartType = "bar"
  /\ xAxis = ""
  /\ yAxis = ""
  /\ groupBy = ""

NextViz ==
  \/ defaultAxes
  \/ \E t \in ChartTypes : setChartType(t)
  \/ \E col \in {"x", "y", "g"} : setXAxis(col)
  \/ \E col \in {"x", "y", "g"} : setYAxis(col)
  \/ \E col \in {"", "x", "y", "g"} : setGroupBy(col)

SpecViz == InitViz /\ [][NextViz]_vars

----------------------------------------------------------------------------
(* Data sets with many group values, for the series colors *)

\* at most this many rows in a data set of the color family
MaxColorRows == 10

\* group labels, one more than the palette has colors, in two orders
Labels == <<"g1", "g2", "g3", "g4", "g5", "g6", "g7", "g8", "g9">>
LabelOrders == {Labels, [i \in 1..Len(Labels) |-> Labels[Len(Labels) + 1 - i]]}

DistinctCount(sq) == Cardinality({sq[i] : i \in 1..Len(sq)})

\* label sequences of length up to n in which every row repeats the first
\* label or brings the next unseen label of the order
RECURSIVE LabelSeqs(_, _)
LabelSeqs(order, n) ==
  IF n = 0 THEN {<<>>}
  ELSE LET shorter == LabelSeqs(order, n - 1)
           Choices(sq) ==
             (IF Len(sq) > 0 THEN {sq[1]} ELSE {})
               \cup (IF DistinctCount(sq) < Len(order)
                       THEN {order[DistinctCount(sq) + 1]} ELSE {})
       IN shorter \cup UNION {{Append(sq, l) : l \in Choices(sq)} :
                                 sq \in {t \in shorter : Len(t) = n - 1}}

ColorRow(label) == [x |-> Num(1), y |-> Num(5), g |-> Str(label)]

InitColor ==
  /\ InitNoViz
  /\ \E order \in LabelOrders : \E ls \in LabelSeqs(order, MaxColorRows) :
       data = [i \in 1..Len(ls) |-> ColorRow(ls[i])]
  /\ chartType = "bar"
  /\ xAxis = ""
  /\ yAxis = ""
  /\ groupBy = ""

SpecColor == InitColor /\ [][NextViz]_vars

----------------------------------------------------------------------------
(* Properties of VisualizationPanel *)

\* the sum of the y column over the rows in S (NaN if a value does not parse)
RECURSIVE SumN(_)
SumN(S) ==
  IF S = {} THEN 0
  ELSE LET i == CHOOSE j \in S : TRUE
       IN Number(data[i][yAxis]).n + SumN(S \ {i})

SumY(S) ==
  IF \E i \in S : isNaN(Number(data[i][yAxis])) THEN NaN ELSE Num(SumN(S))

RowsWithX(v) == {i \in 1..Len(data) : data[i][xAxis] = v}
RowsWithXG(v, g) == {i \in 1..Len(data) : data[i][xAxis] = v /\ data[i][groupBy] = g}
ValuesOf(col) == {data[i][col] : i \in 1..Len(data)}

\* C7: without groupBy the chart data of a bar chart has one entry per
\* distinct x value, whose y value is the sum of the y column over the rows
\* with that x value.
C7_BarAggregatesBySum ==
  (chartType = "bar" /\ groupBy = "" /\ xAxis # "" /\ yAxis # "") =>
    /\ Len(chartData) = Cardinality(ValuesOf(xAxis))
    /\ \A v \in ValuesOf(xAxis) :
         \E j \in 1..Len(chartData) :
           /\ xAxis # yAxis => chartData[j].val[xAxis] = Str(ToKey(v))
           /\ chartData[j].val[yAxis] = SumY(RowsWithX(v))

\* C8: with groupBy, for bar and line charts, every distinct group value is a
\* series, and the entry of x holds under key g the sum of y over the rows
\* with (x, g) while its x-axis key holds x.
C8_GroupedPivot ==
  (chartType \in {"bar", "line"} /\ groupBy # "" /\ xAxis # "" /\ yAxis # "") =>
    /\ {renderChart.series[k].dataKey : k \in 1..Len(renderChart.series)} = ValuesOf(groupBy)
    /\ \A v \in ValuesOf(xAxis), g \in ValuesOf(groupBy) :
         RowsWithXG(v, g) # {} =>
           \E j \in 1..Len(chartData) :
             /\ chartData[j].val[xAxis] = Str(ToKey(v))
             /\ Has(chartData[j], ToKey(g))
             /\ chartData[j].val[ToKey(g)] = SumY(RowsWithXG(v, g))

\* every non-null value of the column parses as a number
AllValuesParse(col) ==
  \A i \in 1..Len(data) : data[i][col] # Null => ~isNaN(Number(data[i][col]))

\* C9: with chart type scatter, if the x or the y column holds a non-null
\* value that does not parse as a number, no scatter chart is rendered and
\* the numeric-columns message is shown.
C9_ScatterRefused ==
  (chartType = "scatter" /\ xAxis # "" /\ yAxis # ""
     /\ (~AllValuesParse(xAxis) \/ ~AllValuesParse(yAxis))) =>
    renderChart = Message("Scatter plots require numeric columns for both X and Y axes")

\* the first row holding group value v, and how many group values came before
FirstRow(v) == CHOOSE i \in 1..Len(data) :
                 /\ data[i][groupBy] = v
                 /\ \A j \in 1..(i - 1) : data[j][groupBy] # v
SeenBefore(v) == Cardinality({w \in ValuesOf(groupBy) : FirstRow(w) < FirstRow(v)})

----------------------------------------------------------------------------
(* AuthContext (login, logout) with the login form and the Settings page    *)

\* at most this many login calls are followed
MaxLogins == 2

\* what the create-session request resolves to: a session id, or a body
\* without one
CreateResponses == {"s2", ""}

\* the (model, agentType) pairs submitted with the login form
LoginChoices == {<<"gpt-4", "LangChain Agent">>, <<"gpt-3.5-turbo", "Custom Agent">>}

PendingLogins == {c \in 1..Len(logins) : logins[c].st = "pending"}

\* the session state a login call finds: the auth state and what localStorage
\* holds (recorded with the call, not read by the code)
SessionState ==
  [token |-> token, user |-> user, isAuthenticated |-> isAuthenticated,
   lsToken |-> lsToken, lsUser |-> lsUser]

\* login(apiKey, model, agentType) up to its await; the Connect button is
\* disabled while isLoading
login(model, agent) ==
  /\ ~authLoading /\ ~settingsMounted
  /\ Len(logins) < MaxLogins
  /\ authLoading' = TRUE
  /\ authError' = NULL
  /\ logins' = Append(logins, [st |-> "pending", model |-> model, agentType |-> agent,
                               outcome |-> "", before |-> SessionState])
  /\ UNCHANGED <<token, isAuthenticated, user, logoutPending, deleteLog,
                 chatVars, uiVars, sessVars, vizVars, appVars>>

\* the create-session request resolves: createSession stores the session if
\* the body has a session_id; login sets the state, or throws and catches
loginFulfil(c, sid) ==
  /\ c \in PendingLogins
  /\ logins' = [logins EXCEPT ![c].st = IF sid # "" THEN "fulfilled" ELSE "rejected",
                              ![c].outcome = sid]
  /\ IF sid # ""
       THEN /\ lsToken' = sid
            /\ lsUser' = JSONStringify(UserData(sid, logins[c].model, logins[c].agentType))
            /\ token' = sid
            /\ user' = UserData(sid, logins[c].model, logins[c].agentType)
            /\ isAuthenticated' = TRUE
            /\ UNCHANGED authError
       ELSE /\ authError' = "Invalid response from server"
            /\ UNCHANGED <<lsToken, lsUser, token, user, isAuthenticated>>
  /\ authLoading' = FALSE
  /\ UNCHANGED <<logoutPending, deleteLog, lsExpiry, now, pingInterval, timers, nextPing,
                 pingsPending, ret, chatVars, uiVars, vizVars, appVars>>

\* variant: the catch block of login also resets the auth state
loginReject_ResetsState(c, e) ==
  /\ c \in PendingLogins
  /\ logins' = [logins EXCEPT ![c].st = "rejected", ![c].outcome = e]
  /\ authError' = OrDefault(e, "Failed to authenticate")
  /\ authLoading' = FALSE
  /\ token' = NULL
  /\ user' = NoUser
  /\ isAuthenticated' = FALSE
  /\ UNCHANGED <<logoutPending, deleteLog, chatVars, uiVars, sessVars, vizVars, appVars>>

\* the create-session request fails: createSession rethrows, login catches,
\* sets error and rethrows
loginReject(c, e) ==
  /\ c \in PendingLogins
  /\ logins' = [logins EXCEPT ![c].st = "rejected", ![c].outcome = e]
  /\ authError' = OrDefault(e, "Failed to authenticate")
  /\ authLoading' = FALSE
  /\ UNCHANGED <<token, isAuthenticated, user, logoutPending, deleteLog,
                 chatVars, uiVars, sessVars, vizVars, appVars>>

\* a protected route shows the Settings page
openSettings ==
  /\ isAuthenticated /\ ~authLoading /\ ~settingsMounted
  /\ SettingsMount
  /\ UNCHANGED <<chatVars, uiVars, authVars, sessVars, vizVars, dataVars, uploaderVars, pairVars, loaderVars, routeVars>>

\* the user leaves the Settings page
closeSettings ==
  /\ settingsMounted
  /\ SettingsUnmount
  /\ UNCHANGED <<chatVars, uiVars, authVars, sessVars, vizVars, dataVars, uploaderVars, pairVars, loaderVars, routeVars>>

\* the options of the Model select
SettingsModels == {"gpt-4", "gpt-3.5-turbo", "gpt-4-vision"}

\* onChange of the Model select
setSelectedModel(m) ==
  /\ settingsMounted /\ m # selectedModel
  /\ selectedModel' = m
  /\ UNCHANGED <<settingsMounted, agentType, saved, chatVars, uiVars, authVars, sessVars,
                 vizVars, dataVars, uploaderVars, pairVars, loaderVars, routeVars>>

\* onChange of the Agent Type select
setAgentType(a) ==
  /\ settingsMounted /\ a # agentType
  /\ agentType' = a
  /\ UNCHANGED <<settingsMounted, selectedModel, saved, chatVars, uiVars, authVars,
                 sessVars, vizVars, dataVars, uploaderVars, pairVars, loaderVars, routeVars>>

\* variant: Save Settings writes the selection into the session's user
handleSaveSettings_AppliesSelection ==
  /\ settingsMounted
  /\ saved' = TRUE
  /\ user' = [user EXCEPT !.model = selectedModel, !.agentType = agentType]
  /\ UNCHANGED <<settingsMounted, selectedModel, agentType, chatVars, uiVars, token,
                 isAuthenticated, authLoading, logoutPending, deleteLog, authError, logins,
                 sessVars, vizVars, dataVars, uploaderVars, pairVars, loaderVars, routeVars>>

\* the Save Settings button: setSaved(true), and a timer
handleSaveSettings ==
  /\ settingsMounted
  /\ saved' = TRUE
  /\ UNCHANGED <<settingsMounted, selectedModel, agentType, chatVars, uiVars, authVars,
                 sessVars, vizVars, dataVars, uploaderVars, pairVars, loaderVars, routeVars>>

\* the timer of handleSaveSettings fires: setSaved(false)
savedTimeout ==
  /\ settingsMounted /\ saved
  /\ saved' = FALSE
  /\ UNCHANGED <<settingsMounted, selectedModel, agentType, chatVars, uiVars, authVars,
                 sessVars, vizVars, dataVars, uploaderVars, pairVars, loaderVars, routeVars>>

\* what localStorage holds when the page is opened: nothing, or the session
\* stored by a login of an earlier visit
StoredSessions == {UserData("s1", "gpt-3.5-turbo", "Custom Agent")}

InitAuth ==
  /\ messageHistory = <<>>
  /\ calls = <<>>
  /\ messages = <<>>
  /\ input = ""
  /\ isLoading = FALSE
  /\ error = NULL
  /\ dataLoaded = FALSE
  /\ uiSends = <<>>
  /\ lastThrow = NULL
  /\ ifaceMounted = FALSE
  /\ token = NULL
  /\ isAuthenticated = FALSE
  /\ authLoading = TRUE
  /\ logoutPending = FALSE
  /\ deleteLog = <<>>
  /\ user = NoUser
  /\ authError = NULL
  /\ logins = <<>>
  /\ InitAppIdle
  /\ \/ lsToken = NULL /\ lsUser = NULL
     \/ \E u \in StoredSessions : lsToken = u.sessionId /\ lsUser = JSONStringify(u)
  /\ lsExpiry = NoExpiry
  /\ now = 0
  /\ pingInterval = FALSE
  /\ nextPing = 0
  /\ timers = 0
  /\ pingsPending = 0
  /\ ret = [op |-> "none", value |-> NULL]
  /\ InitVizIdle

NextAuth ==
  \/ initializeAuth
  \/ \E ch \in LoginChoices : login(ch[1], ch[2])
  \/ \E c \in 1..MaxLogins, sid \in CreateResponses : loginFulfil(c, sid)
  \/ \E c \in 1..MaxLogins, e \in ErrorMessages \cup {""} : loginReject(c, e)
  \/ openSettings
  \/ closeSettings
  \/ \E m \in SettingsModels : setSelectedModel(m)
  \/ \E a \in AgentTypes : setAgentType(a)
  \/ handleSaveSettings
  \/ savedTimeout
  \/ logout
  \/ \E ok \in BOOLEAN : logoutSettle(ok)

SpecAuth == InitAuth /\ [][NextAuth]_vars

\* C11: a successful login sets user.model and user.agentType to its
\* arguments; afterwards they change only when a logout completes or another
\* login succeeds, and no step of the Settings page (selecting a model or an
\* agent type, Save Settings) changes user or the stored user.
C11_ModelFixedAtCreation ==
  [][/\ \A c \in PendingLogins :
          logins'[c].st = "fulfilled" =>
            user'.model = logins[c].model /\ user'.agentType = logins[c].agentType
     /\ (user # NoUser /\ (user'.model # user.model \/ user'.agentType # user.agentType)) =>
          \/ logoutPending /\ ~logoutPending' /\ user' = NoUser
          \/ \E c \in PendingLogins : logins'[c].st = "fulfilled"
     /\ (settingsMounted /\ settingsMounted' /\ settingsVars' # settingsVars) =>
          user' = user /\ lsUser' = lsUser]_vars

\* logged in with one model, another one was selected on the Settings page
\* and Save Settings was pressed
C11_Witness ==
  /\ settingsMounted /\ saved
  /\ \E c \in 1..Len(logins) : logins[c].st = "fulfilled" /\ user.model = logins[c].model
  /\ selectedModel # user.model
  /\ agentType # user.agentType

\* C12: when a logout finishes, after a successful and after a failed DELETE
\* request alike, token and user are null, isAuthenticated and isLoading are
\* false, and the stored token and user are removed from localStorage.
C12_LogoutClearsState ==
  [][(logoutPending /\ ~logoutPending') =>
       /\ token' = NULL
       /\ user' = NoUser
       /\ ~isAuthenticated'
       /\ ~authLoading'
       /\ lsToken' = NULL
       /\ lsUser' = NULL]_vars

\* a logout whose DELETE request failed has finished
C12_Witness ==
  /\ Len(deleteLog) > 0
  /\ deleteLog[Len(deleteLog)].result = "failed"
  /\ ~logoutPending
  /\ token = NULL /\ user = NoUser /\ lsToken = NULL

----------------------------------------------------------------------------
(* DataProvider (uploadFile, fetchDataPreview) and EnhancedFileUploader on  *)
(* the dashboard                                                            *)

\* at most this many uploadFile / fetchDataPreview calls are followed
MaxDataReqs == 2

\* at most this many times the dashboard is opened
MaxMounts == 2

\* previewData.sample_data and previewData.columns of a preview response
SampleData == "sample_data"
SampleColumns == <<"x", "y">>

\* the dashboard with its upload tab is shown (a protected route); a Settings
\* page that was shown is left
showDashboard ==
  /\ isAuthenticated /\ ~authLoading /\ ~uploaderMounted
  /\ uploaderId < MaxMounts
  /\ uploaderMounted' = TRUE
  /\ uploaderId' = uploaderId + 1
  /\ files' = FALSE
  /\ uploadStatus' = "idle"
  /\ IF settingsMounted THEN SettingsUnmount ELSE UNCHANGED settingsVars
  /\ UNCHANGED <<fileUploaded, chatVars, uiVars, authVars, sessVars, vizVars, dataVars, pairVars, loaderVars, routeVars>>

\* the user goes from the dashboard to the Settings page
dashboardToSettings ==
  /\ uploaderMounted /\ isAuthenticated /\ ~authLoading
  /\ uploaderMounted' = FALSE
  /\ files' = FALSE
  /\ uploadStatus' = "idle"
  /\ SettingsMount
  /\ UNCHANGED <<uploaderId, fileUploaded, chatVars, uiVars, authVars, sessVars, vizVars,
                 dataVars, pairVars, loaderVars, routeVars>>

\* onDrop with an accepted file: setFiles(acceptedFiles)
onDrop ==
  /\ uploaderMounted /\ ~files
  /\ files' = TRUE
  /\ UNCHANGED <<uploaderMounted, uploaderId, uploadStatus, fileUploaded, chatVars, uiVars,
                 authVars, sessVars, vizVars, settingsVars, dataVars, pairVars, loaderVars, routeVars>>

\* the Remove / Upload Another button (disabled while the provider is loading)
clearFiles ==
  /\ uploaderMounted /\ files /\ ~dpLoading
  /\ files' = FALSE
  /\ uploadStatus' = "idle"
  /\ UNCHANGED <<uploaderMounted, uploaderId, fileUploaded, chatVars, uiVars,
                 authVars, sessVars, vizVars, settingsVars, dataVars, pairVars, loaderVars, routeVars>>

\* handleUpload after its await, for the uploader instance that made the call:
\* state updates of an instance that is no longer mounted are dropped
UploaderSets(inst, status) ==
  IF uploaderMounted /\ uploaderId = inst
    THEN uploadStatus' = status
    ELSE UNCHANGED uploadStatus

\* uploadFile without a token: setError, return undefined; handleUpload's
\* await resolves and it goes on as after a finished upload
uploadFileNoToken ==
  /\ dpError' = "Authentication required"
  /\ uploadStatus' = "success"
  /\ fileUploaded' = Append(fileUploaded, [req |-> 0, result |-> "undefined"])
  /\ UNCHANGED <<dpLoading, dataReqs>>

\* the Upload button (shown while uploadStatus is 'idle', disabled while the
\* provider is loading): handleUpload, and uploadFile up to its first await
handleUpload ==
  /\ uploaderMounted /\ files /\ uploadStatus = "idle" /\ ~dpLoading
  /\ Len(dataReqs) < MaxDataReqs /\ Len(fileUploaded) < MaxDataReqs
  /\ IF token = NULL
       THEN uploadFileNoToken
       ELSE /\ uploadStatus' = "uploading"
            /\ dpLoading' = TRUE
            /\ dpError' = NULL
            /\ dataReqs' = Append(dataReqs, [kind |-> "upload", phase |-> "upload",
                                             token |-> token, inst |-> uploaderId])
            /\ UNCHANGED fileUploaded
  /\ UNCHANGED <<uploaderMounted, uploaderId, files, dataPreview, dataColumns, chatVars,
                 uiVars, authVars, sessVars, vizVars, settingsVars, pairVars, loaderVars, routeVars>>

\* the upload request settles.  ok: uploadFile calls fetchDataPreview, which
\* (with the token of the same closure) sends the preview request; otherwise
\* uploadFile sets error and rethrows, handleUpload catches
uploadResponse(i, ok) ==
  /\ i \in 1..Len(dataReqs) /\ dataReqs[i].phase = "upload"
  /\ IF ok
       THEN /\ dataReqs' = [dataReqs EXCEPT ![i].phase = "preview"]
            /\ dpLoading' = TRUE
            /\ dpError' = NULL
            /\ UNCHANGED uploadStatus
       ELSE /\ dataReqs' = [dataReqs EXCEPT ![i].phase = "failed"]
            /\ dpLoading' = FALSE
            /\ dpError' = "Failed to upload file"
            /\ UploaderSets(dataReqs[i].inst, "error")
  /\ UNCHANGED <<uploaderMounted, uploaderId, files, fileUploaded, dataPreview, dataColumns,
                 chatVars, uiVars, authVars, sessVars, vizVars, settingsVars, pairVars, loaderVars, routeVars>>

\* fetchDataPreview called by a component of a protected page
fetchDataPreview ==
  /\ isAuthenticated /\ ~authLoading
  /\ Len(dataReqs) < MaxDataReqs
  /\ IF token = NULL
       THEN /\ dpError' = "Authentication required"
            /\ UNCHANGED <<dpLoading, dataReqs>>
       ELSE /\ dpLoading' = TRUE
            /\ dpError' = NULL
            /\ dataReqs' = Append(dataReqs, [kind |-> "preview", phase |-> "preview",
                                             token |-> token, inst |-> 0])
  /\ UNCHANGED <<dataPreview, dataColumns, uploaderVars, chatVars, uiVars, authVars,
                 sessVars, vizVars, settingsVars, pairVars, loaderVars, routeVars>>

\* the preview request settles: fetchDataPreview sets the preview or the
\* error; an uploadFile that awaited it sets dataLoaded or rethrows, and
\* handleUpload reports the outcome
previewResponse(i, ok) ==
  /\ i \in 1..Len(dataReqs) /\ dataReqs[i].phase = "preview"
  /\ dataReqs' = [dataReqs EXCEPT ![i].phase = IF ok THEN "done" ELSE "failed"]
  /\ dpLoading' = FALSE
  /\ IF ok
       THEN /\ dataPreview' = SampleData
            /\ dataColumns' = SampleColumns
            /\ UNCHANGED dpError
       ELSE /\ dpError' = "Failed to fetch data preview"
            /\ UNCHANGED <<dataPreview, dataColumns>>
  /\ IF dataReqs[i].kind = "upload"
       THEN /\ dataLoaded' = IF ok THEN TRUE ELSE dataLoaded
            /\ UploaderSets(dataReqs[i].inst, IF ok THEN "success" ELSE "error")
            /\ fileUploaded' = IF ok THEN Append(fileUploaded, [req |-> i, result |-> "result"])
                                     ELSE fileUploaded
       ELSE UNCHANGED <<dataLoaded, uploadStatus, fileUploaded>>
  /\ UNCHANGED <<uploaderMounted, uploaderId, files, chatVars, messages, input, isLoading,
                 error, uiSends, lastThrow, ifaceMounted, authVars, sessVars, vizVars,
                 settingsVars, pairVars, loaderVars, routeVars>>

\* a logged-in user; no page with an uploader is shown yet
InitData ==
  /\ messageHistory = <<>>
  /\ calls = <<>>
  /\ messages = <<>>
  /\ input = ""
  /\ isLoading = FALSE
  /\ error = NULL
  /\ dataLoaded = FALSE
  /\ uiSends = <<>>
  /\ lastThrow = NULL
  /\ ifaceMounted = FALSE
  /\ token = SessionId
  /\ isAuthenticated = TRUE
  /\ authLoading = FALSE
  /\ logoutPending = FALSE
  /\ deleteLog = <<>>
  /\ user = UserData(SessionId, DefaultModel, DefaultAgentType)
  /\ authError = NULL
  /\ logins = <<>>
  /\ InitAppIdle
  /\ lsToken = SessionId
  /\ lsUser = JSONStringify(UserData(SessionId, DefaultModel, DefaultAgentType))
  /\ lsExpiry = NoExpiry
  /\ now = 0
  /\ pingInterval = FALSE
  /\ nextPing = 0
  /\ timers = 0
  /\ pingsPending = 0
  /\ ret = [op |-> "none", value |-> NULL]
  /\ InitVizIdle

NextData ==
  \/ showDashboard
  \/ dashboardToSettings
  \/ onDrop
  \/ clearFiles
  \/ handleUpload
  \/ \E i \in 1..MaxDataReqs, ok \in BOOLEAN : uploadResponse(i, ok)
  \/ fetchDataPreview
  \/ \E i \in 1..MaxDataReqs, ok \in BOOLEAN : previewResponse(i, ok)
  \/ logout
  \/ \E ok \in BOOLEAN : logoutSettle(ok)

SpecData == InitData /\ [][NextData]_vars

\* C13: whenever isAuthenticated is false and no login or logout is in
\* progress, the DataProvider holds no dataset: dataLoaded is false,
\* dataPreview is null and dataColumns is empty.
C13_NoDataWithoutSession ==
  (~isAuthenticated /\ ~authLoading) =>
    /\ ~dataLoaded
    /\ dataPreview = NULL
    /\ dataColumns = <<>>

\* an EnhancedFileUploader mounted under the DataProvider, by a host page
\* that may or may not sit behind the login: with or without a token
InitUploader ==
  /\ messageHistory = <<>>
  /\ calls = <<>>
  /\ messages = <<>>
  /\ input = ""
  /\ isLoading = FALSE
  /\ error = NULL
  /\ dataLoaded = FALSE
  /\ uiSends = <<>>
  /\ lastThrow = NULL
  /\ ifaceMounted = FALSE
  /\ \/ /\ token = SessionId
        /\ isAuthenticated = TRUE
        /\ user = UserData(SessionId, DefaultModel, DefaultAgentType)
        /\ lsToken = SessionId
        /\ lsUser = JSONStringify(UserData(SessionId, DefaultModel, DefaultAgentType))
     \/ /\ token = NULL
        /\ isAuthenticated = FALSE
        /\ user = NoUser
        /\ lsToken = NULL
        /\ lsUser = NULL
  /\ authLoading = FALSE
  /\ logoutPending = FALSE
  /\ deleteLog = <<>>
  /\ authError = NULL
  /\ logins = <<>>
  /\ InitSettingsIdle
  /\ InitDataIdle
  /\ InitPairIdle
  /\ InitLoaderIdle
  /\ InitRouteIdle
  /\ uploaderMounted = TRUE
  /\ uploaderId = 1
  /\ files = FALSE
  /\ uploadStatus = "idle"
  /\ fileUploaded = <<>>
  /\ lsExpiry = NoExpiry
  /\ now = 0
  /\ pingInterval = FALSE
  /\ nextPing = 0
  /\ timers = 0
  /\ pingsPending = 0
  /\ ret = [op |-> "none", value |-> NULL]
  /\ InitVizIdle

SpecUploader == InitUploader /\ [][NextData]_vars

\* an upload call whose preview request succeeds in this step
UploadCompletes ==
  \E i \in 1..Len(dataReqs) :
    /\ dataReqs[i].kind = "upload"
    /\ dataReqs[i].phase = "preview"
    /\ dataReqs'[i].phase = "done"

\* C19: uploadStatus becomes 'success' and onFileUploaded is called only in
\* a step in which an upload that was sent completes successfully; a step in
\* which handleUpload's uploadFile call fails or does not run sets the
\* uploader's uploadStatus to 'error' and calls nothing.
C19_SuccessOnlyAfterUpload ==
  [][/\ (uploadStatus' = "success" /\ uploadStatus # "success") => UploadCompletes
     /\ Len(fileUploaded') > Len(fileUploaded) => UploadCompletes
     /\ \A i \in 1..Len(dataReqs) :
          (dataReqs[i].kind = "upload" /\ dataReqs[i].phase # "failed"
             /\ dataReqs'[i].phase = "failed"
             /\ uploaderMounted /\ uploaderId = dataReqs[i].inst)
            => uploadStatus' = "error" /\ fileUploaded' = fileUploaded]_vars

----------------------------------------------------------------------------
(* Two ChatService instances, and a caller holding the array returned by    *)
(* getMessageHistory                                                        *)

\* with two instances, at most this many sendMessage calls on each are followed
MaxCalls2 == 1

PendingCalls2 == {c \in 1..Len(calls2) : calls2[c].st = "pending"}

\* variant: the instances push into one shared history array
SendMessage2_SharedHistory(q) ==
  /\ Len(calls2) < MaxCalls2
  /\ messageHistory2' = Append(messageHistory2, UserEntry(q, Len(calls2) + 1))
  /\ messageHistory' = Append(messageHistory, UserEntry(q, Len(calls2) + 1))
  /\ calls2' = Append(calls2, [st |-> "pending", query |-> q, outcome |-> ""])
  /\ UNCHANGED <<calls, historyCopy, copyOf, copyAlias, uiVars, authVars, sessVars,
                 vizVars, settingsVars, dataVars, uploaderVars, loaderVars, routeVars>>

\* sendMessage on the second instance, up to its await
SendMessage2(q) ==
  /\ Len(calls2) < MaxCalls2
  /\ messageHistory2' = Append(messageHistory2, UserEntry(q, Len(calls2) + 1))
  /\ calls2' = Append(calls2, [st |-> "pending", query |-> q, outcome |-> ""])
  /\ UNCHANGED <<chatVars, historyCopy, copyOf, copyAlias, uiVars, authVars, sessVars,
                 vizVars, settingsVars, dataVars, uploaderVars, loaderVars, routeVars>>

\* sendMessage on the second instance after the await, request succeeded
Fulfil2(c, r) ==
  /\ c \in PendingCalls2
  /\ messageHistory2' = IF Truthy(r)
                          THEN Append(messageHistory2, AssistantEntry(r, c))
                          ELSE messageHistory2
  /\ calls2' = [calls2 EXCEPT ![c].st = "fulfilled", ![c].outcome = r.kind]
  /\ UNCHANGED <<chatVars, historyCopy, copyOf, copyAlias, uiVars, authVars, sessVars,
                 vizVars, settingsVars, dataVars, uploaderVars, loaderVars, routeVars>>

\* sendMessage on the second instance after the await, request failed
Reject2(c, e) ==
  /\ c \in PendingCalls2
  /\ messageHistory2' = Append(messageHistory2, ErrorEntry(e, c))
  /\ calls2' = [calls2 EXCEPT ![c].st = "rejected", ![c].outcome = e]
  /\ UNCHANGED <<chatVars, historyCopy, copyOf, copyAlias, uiVars, authVars, sessVars,
                 vizVars, settingsVars, dataVars, uploaderVars, loaderVars, routeVars>>

\* clearMessageHistory on the second instance
clearMessageHistory2 ==
  /\ messageHistory2 # <<>>
  /\ messageHistory2' = <<>>
  /\ UNCHANGED <<chatVars, calls2, historyCopy, copyOf, copyAlias, uiVars, authVars,
                 sessVars, vizVars, settingsVars, dataVars, uploaderVars, loaderVars, routeVars>>

Instances == {"A", "B"}
HistoryOf(inst) == IF inst = "A" THEN messageHistory ELSE messageHistory2

\* variant: getMessageHistory hands out the array the instance keeps
ReturnHistory_SameArray(inst) ==
  /\ historyCopy' = HistoryOf(inst)
  /\ copyOf' = inst
  /\ copyAlias' = TRUE

\* return [...this.messageHistory]: a new array with the same entries
ReturnHistory(inst) ==
  /\ historyCopy' = getMessageHistory(HistoryOf(inst))
  /\ copyOf' = inst
  /\ copyAlias' = FALSE

\* a caller calls getMessageHistory on an instance and keeps the result
getHistory(inst) ==
  /\ ReturnHistory(inst)
  /\ UNCHANGED <<chatVars, messageHistory2, calls2, uiVars, authVars, sessVars, vizVars,
                 settingsVars, dataVars, uploaderVars, loaderVars, routeVars>>

\* the caller has written arr into the array it holds; an instance whose own
\* array that is sees the same write
CallerWrites(arr) ==
  /\ copyOf # "none"
  /\ historyCopy' = arr
  /\ messageHistory' = IF copyAlias /\ copyOf = "A" THEN arr ELSE messageHistory
  /\ messageHistory2' = IF copyAlias /\ copyOf = "B" THEN arr ELSE messageHistory2
  /\ UNCHANGED <<calls, calls2, copyOf, copyAlias, uiVars, authVars, sessVars, vizVars,
                 settingsVars, dataVars, uploaderVars, loaderVars, routeVars>>

\* an entry made by the caller
CallerEntry == [content |-> "edited", sender |-> "user", isError |-> FALSE,
                visualization |-> NULL, visualization_code |-> NULL, call |-> 0]

\* at most this many entries in an array a caller has pushed to
MaxCopyLen == 2

\* the caller's array operations: push, pop, element assignment
copyPush ==
  /\ Len(historyCopy) < MaxCopyLen
  /\ CallerWrites(Append(historyCopy, CallerEntry))

copyPop ==
  /\ Len(historyCopy) > 0
  /\ CallerWrites(SubSeq(historyCopy, 1, Len(historyCopy) - 1))

copyAssign(i) ==
  /\ i \in 1..Len(historyCopy)
  /\ historyCopy[i] # CallerEntry
  /\ CallerWrites([historyCopy EXCEPT ![i] = CallerEntry])

\* the queries and replies followed with two instances
PairQueries == {"q1"}
PairResponses == {r \in Responses : r.kind = "falsy" \/ r.response # ""}

InitPair ==
  /\ messageHistory = <<>>
  /\ calls = <<>>
  /\ InitIdle
  /\ InitStorageIdle
  /\ InitVizIdle

NextPair ==
  \/ \E q \in PairQueries : Len(calls) < MaxCalls2 /\ SendMessage(q)
  \/ \E c \in 1..MaxCalls2, r \in PairResponses : Fulfil(c, r)
  \/ \E c \in 1..MaxCalls2, e \in ErrorMessages : Reject(c, e)
  \/ clearMessageHistory
  \/ \E q \in PairQueries : SendMessage2(q)
  \/ \E c \in 1..MaxCalls2, r \in PairResponses : Fulfil2(c, r)
  \/ \E c \in 1..MaxCalls2, e \in ErrorMessages : Reject2(c, e)
  \/ clearMessageHistory2
  \/ \E inst \in Instances : getHistory(inst)
  \/ copyPush
  \/ copyPop
  \/ \E i \in 1..MaxCopyLen : copyAssign(i)

SpecPair == InitPair /\ [][NextPair]_vars

\* C14: a step of one ChatService instance (sendMessage at any of its
\* stages, clearMessageHistory) leaves the other instance's messageHistory
\* unchanged, and a step in which the holder of an array returned by
\* getMessageHistory changes that array leaves both histories unchanged.
C14_InstancesIndependent ==
  [][/\ (calls2' # calls2 \/ messageHistory2' # messageHistory2)
          => messageHistory' = messageHistory
     /\ (calls' # calls \/ messageHistory' # messageHistory)
          => messageHistory2' = messageHistory2
     /\ (copyOf # "none" /\ copyOf' = copyOf /\ historyCopy' # historyCopy)
          => messageHistory' = messageHistory /\ messageHistory2' = messageHistory2]_vars

\* the first instance holds a turn, the second one was used and cleared, and
\* the array taken from the first was changed by its holder
C14_Witness ==
  /\ Len(messageHistory) = 2
  /\ messageHistory2 = <<>> /\ Len(calls2) = 1
  /\ copyOf = "A"
  /\ Len(historyCopy) = 2
  /\ historyCopy[1] = CallerEntry
  /\ historyCopy[2] = messageHistory[2]

(***************************************************************************)
(* DataProvider built on axios (context/DataContext.js, second version):   *)
(* loadDataFromFile, clearData.  A call of loadDataFromFile reads          *)
(* activeSession from the render that created the function, so the value   *)
(* is fixed when the call starts; setActiveSession changes the state of    *)
(* the provider, not the value the running call holds.                      *)
(***************************************************************************)
MaxLoads == 2

\* the session_id values the backend hands out
CreatedIds == {"s1", "s2"}

PendingLoads(st) == {c \in 1..Len(loads) : loads[c].st = st}

LoaderRequest(c, kind, sid) == [call |-> c, kind |-> kind, sid |-> sid]

\* const sessionId = activeSession, as the call sees activeSession
SessionIdOf(c) == loads[c].captured

\* loadDataFromFile up to its first await: POST /sessions when the captured
\* activeSession is falsy, else the upload
loadDataFromFile ==
  /\ Len(loads) < MaxLoads
  /\ loaderLoading' = TRUE
  /\ loaderError' = NULL
  /\ LET c == Len(loads) + 1 IN
     IF activeSession = NULL
       THEN /\ loads' = Append(loads, [st |-> "creating", captured |-> activeSession,
                                       created |-> NULL])
            /\ UNCHANGED loaderRequests
       ELSE /\ loads' = Append(loads, [st |-> "uploading", captured |-> activeSession,
                                       created |-> NULL])
            /\ loaderRequests' = Append(loaderRequests,
                                        LoaderRequest(c, "upload", activeSession))
  /\ UNCHANGED <<activeSession, loaderDataLoaded>>
  /\ UNCHANGED <<chatVars, uiVars, authVars, sessVars, vizVars,
                 settingsVars, dataVars, uploaderVars, pairVars, routeVars>>

\* POST /sessions answered: setActiveSession, then the upload is sent
createSessionFulfil(c, sid) ==
  /\ c \in PendingLoads("creating")
  /\ activeSession' = sid
  /\ loads' = [loads EXCEPT ![c].st = "uploading", ![c].created = sid]
  /\ loaderRequests' = Append(loaderRequests,
                              LoaderRequest(c, "upload", SessionIdOf(c)))
  /\ UNCHANGED <<loaderLoading, loaderError, loaderDataLoaded>>
  /\ UNCHANGED <<chatVars, uiVars, authVars, sessVars, vizVars,
                 settingsVars, dataVars, uploaderVars, pairVars, routeVars>>

\* any of the three requests rejected: catch, then finally
loadReject(c) ==
  /\ c \in 1..Len(loads)
  /\ loads[c].st \in {"creating", "uploading", "previewing"}
  /\ loads' = [loads EXCEPT ![c].st = "failed"]
  /\ loaderError' = "Failed to load data"
  /\ loaderLoading' = FALSE
  /\ UNCHANGED <<activeSession, loaderDataLoaded, loaderRequests>>
  /\ UNCHANGED <<chatVars, uiVars, authVars, sessVars, vizVars,
                 settingsVars, dataVars, uploaderVars, pairVars, routeVars>>

\* the upload answered: with a body the preview is requested
uploadFulfil(c, hasData) ==
  /\ c \in PendingLoads("uploading")
  /\ IF hasData
       THEN /\ loads' = [loads EXCEPT ![c].st = "previewing"]
            /\ loaderRequests' = Append(loaderRequests,
                                        LoaderRequest(c, "preview", SessionIdOf(c)))
            /\ UNCHANGED loaderLoading
       ELSE /\ loads' = [loads EXCEPT ![c].st = "done"]
            /\ loaderLoading' = FALSE
            /\ UNCHANGED loaderRequests
  /\ UNCHANGED <<activeSession, loaderError, loaderDataLoaded>>
  /\ UNCHANGED <<chatVars, uiVars, authVars, sessVars, vizVars,
                 settingsVars, dataVars, uploaderVars, pairVars, routeVars>>

\* the preview answered
previewFulfil(c, hasData) ==
  /\ c \in PendingLoads("previewing")
  /\ loads' = [loads EXCEPT ![c].st = "done"]
  /\ loaderDataLoaded' = (hasData \/ loaderDataLoaded)
  /\ loaderLoading' = FALSE
  /\ UNCHANGED <<activeSession, loaderError, loaderRequests>>
  /\ UNCHANGED <<chatVars, uiVars, authVars, sessVars, vizVars,
                 settingsVars, dataVars, uploaderVars, pairVars, routeVars>>

\* clearData: the states reset, the active session deleted and forgotten
clearData ==
  /\ loaderDataLoaded \/ activeSession # NULL \/ loaderError # NULL
  /\ loaderDataLoaded' = FALSE
  /\ loaderError' = NULL
  /\ IF activeSession # NULL
       THEN /\ loaderRequests' = Append(loaderRequests,
                                        LoaderRequest(0, "delete", activeSession))
            /\ activeSession' = NULL
       ELSE UNCHANGED <<loaderRequests, activeSession>>
  /\ UNCHANGED <<loaderLoading, loads>>
  /\ UNCHANGED <<chatVars, uiVars, authVars, sessVars, vizVars,
                 settingsVars, dataVars, uploaderVars, pairVars, routeVars>>

InitLoader ==
  /\ messageHistory = <<>>
  /\ calls = <<>>
  /\ InitIdle
  /\ InitStorageIdle
  /\ InitVizIdle

NextLoader ==
  \/ loadDataFromFile
  \/ \E c \in 1..MaxLoads, sid \in CreatedIds : createSessionFulfil(c, sid)
  \/ \E c \in 1..MaxLoads : loadReject(c)
  \/ \E c \in 1..MaxLoads, hasData \in BOOLEAN : uploadFulfil(c, hasData)
  \/ \E c \in 1..MaxLoads, hasData \in BOOLEAN : previewFulfil(c, hasData)
  \/ clearData

SpecLoader == InitLoader /\ [][NextLoader]_vars

\* C15: every upload or preview request of a loadDataFromFile call that
\* created a session carries in its URL the session_id its create-session
\* response returned.
C15_UploadsToCreatedSession ==
  \A r \in 1..Len(loaderRequests) :
    LET q == loaderRequests[r] IN
      (q.kind \in {"upload", "preview"} /\ loads[q.call].created # NULL)
        => q.sid = loads[q.call].created

(***************************************************************************)
(* Properties of the chat interface and of the service history.            *)
(***************************************************************************)

\* C16: a click on a suggestion chip while data is loaded and no request is
\* pending appends to messages a user message whose content is the
\* suggestion and starts a sendMessage call with that text, whatever the
\* text input holds.
C16_ChipClickSends ==
  [][\A s \in Suggestions :
       (~isLoading /\ handleSuggestionClick(s))
         => /\ Len(messages') = Len(messages) + 1
            /\ messages'[Len(messages')].sender = "user"
            /\ messages'[Len(messages')].content = s
            /\ Len(calls') = Len(calls) + 1
            /\ calls'[Len(calls')].query = s]_vars

\* a message displayed at position i keeps its sender and content
SamePrefix(old, new) ==
  /\ Len(new) >= Len(old)
  /\ \A i \in 1..Len(old) : /\ new[i].sender = old[i].sender
                            /\ new[i].content = old[i].content

\* C17: a step of a send (its start, its success or its failure) leaves
\* every message the interface displays at its position with its sender
\* and content; only handleClearChat removes messages.
C17_MessagesAppendOnly ==
  [][(ifaceMounted /\ ifaceMounted' /\ calls' # calls) => SamePrefix(messages, messages')]_vars

\* C18: every assistant entry and every error entry of messageHistory has,
\* earlier in the history, the user entry of the request it answers.
C18_ReplyFollowsItsQuery ==
  \A i \in 1..Len(messageHistory) :
    messageHistory[i].sender \in {"assistant", "system"}
      => \E j \in 1..(i - 1) : /\ messageHistory[j].sender = "user"
                               /\ messageHistory[j].call = messageHistory[i].call

(***************************************************************************)
(* The session ping with a server that answers every ping at once and      *)
(* reports the session active.                                             *)
(***************************************************************************)

\* pingSession resolves true before the clock advances
pingActive == pingResponse(TRUE)

\* time passes while no ping request is open
tickAnswered ==
  /\ pingsPending = 0
  /\ tick

NextKeepAlive ==
  \/ \E m \in ExpiryMinutes : setSession(SessionId, m)
  \/ getSession
  \/ pingTick
  \/ pingActive
  \/ tickAnswered

SpecKeepAlive == InitSession /\ [][NextKeepAlive]_vars

\* C20: while every ping reports the session active, a session stored by
\* setSession with any expiryMinutes is never past its expiry: getSession
\* returns it.
C20_PingKeepsSessionAlive ==
  StoredPresent => /\ ~StoredExpired
                   /\ getSessionValue = lsToken

(***************************************************************************)
(* The ping interval of SessionService, with startSessionPing and          *)
(* stopSessionPing called directly as well.                                *)
(***************************************************************************)

\* SessionService.startSessionPing(): stopSessionPing, then setInterval
startSessionPing ==
  /\ pingInterval' = TRUE
  /\ nextPing' = now + PingPeriod
  /\ timers' = TimersAfterStop + 1
  /\ ret' = [op |-> "startSessionPing", value |-> NULL]
  /\ UNCHANGED <<lsToken, lsUser, lsExpiry, now, pingsPending, chatVars, uiVars, authVars,
                 vizVars, appVars>>

\* SessionService.stopSessionPing()
stopSessionPing ==
  /\ pingInterval' = FALSE
  /\ nextPing' = 0
  /\ timers' = TimersAfterStop
  /\ ret' = [op |-> "stopSessionPing", value |-> NULL]
  /\ UNCHANGED <<lsToken, lsUser, lsExpiry, now, pingsPending, chatVars, uiVars, authVars,
                 vizVars, appVars>>

NextPing ==
  \/ \E m \in ExpiryMinutes : setSession(SessionId, m)
  \/ getSession
  \/ clearSession
  \/ startSessionPing
  \/ stopSessionPing
  \/ pingTick
  \/ \E ok \in BOOLEAN : pingResponse(ok)
  \/ tick

SpecPing == InitSession /\ [][NextPing]_vars

FailingLogins == {c \in PendingLogins : logins'[c].st = "rejected"}

\* C22: a step in which a login fails sets error and ends with isLoading
\* false, and token, user, isAuthenticated and the stored token and user
\* are what they were when login was called.
C22_FailedLoginKeepsSession ==
  [][\A c \in FailingLogins :
       /\ authError' # NULL
       /\ ~authLoading'
       /\ [token |-> token', user |-> user', isAuthenticated |-> isAuthenticated',
           lsToken |-> lsToken', lsUser |-> lsUser'] = logins[c].before]_vars

\* logged in by a first login; a second login failed and the session of the
\* first is still held and stored
C22_Witness ==
  /\ Len(logins) = 2
  /\ logins[1].st = "fulfilled"
  /\ logins[2].st = "rejected"
  /\ authError # NULL
  /\ isAuthenticated
  /\ token = logins[1].outcome
  /\ lsToken = token

(***************************************************************************)
(* ProtectedRoute (components/common/ProtectedRoute.js) under AuthProvider.*)
(* A state is what the latest commit rendered.  The effect of a render     *)
(* runs before the next event; only the effects of the very first commit   *)
(* (checkSession of ProtectedRoute, initializeAuth of AuthProvider) run in *)
(* one flush, in either order.  verifySession is a new function in every   *)
(* render of AuthProvider, so the effect runs again after each of them.    *)
(***************************************************************************)
MaxRouteMounts == 2
MaxVerifies == 3

\* the value of useAuth() in the current render
AuthDeps == [isAuthenticated |-> isAuthenticated, user |-> user, token |-> token,
             isLoading |-> authLoading, error |-> authError]

\* the dependencies [isAuthenticated, verifySession] changed, or the first
\* effect is still to run
EffectDue == routeMounted /\ (mountEffect.due \/ AuthDeps # seenDeps)

\* isAuthenticated and the token of verifySession as the effect to run sees them
EffectClosure ==
  IF mountEffect.due THEN mountEffect
  ELSE [due |-> TRUE, isAuthenticated |-> isAuthenticated, token |-> token]

\* variant: children are rendered as soon as the user is authenticated
RouteRender_IgnoresValidity ==
  IF authLoading \/ isVerifying THEN "loader"
  ELSE IF ~isAuthenticated THEN "redirect"
  ELSE "children"

\* what ProtectedRoute returns: the loader, <Navigate to="/login">, or children
RouteRender ==
  IF authLoading \/ isVerifying THEN "loader"
  ELSE IF ~isAuthenticated \/ ~isSessionValid THEN "redirect"
  ELSE "children"

\* a protected route is opened: a new ProtectedRoute instance, first render
routeMount ==
  /\ ~routeMounted /\ ~authLoading
  /\ routeId < MaxRouteMounts
  /\ routeMounted' = TRUE
  /\ routeId' = routeId + 1
  /\ isVerifying' = TRUE
  /\ isSessionValid' = FALSE
  /\ mountEffect' = [due |-> TRUE, isAuthenticated |-> isAuthenticated, token |-> token]
  /\ seenDeps' = AuthDeps
  /\ lastVerify' = "none"
  /\ UNCHANGED verifies
  /\ UNCHANGED <<chatVars, uiVars, authVars, sessVars, vizVars,
                 settingsVars, dataVars, uploaderVars, pairVars, loaderVars>>

\* the effect: checkSession() up to its await, or to its end when
\* isAuthenticated is false
checkSession ==
  /\ EffectDue
  /\ IF EffectClosure.isAuthenticated
       THEN /\ Len(verifies) < MaxVerifies
            /\ verifies' = Append(verifies, [inst |-> routeId, st |-> "pending",
                                             token |-> EffectClosure.token])
            /\ UNCHANGED isVerifying
       ELSE /\ isVerifying' = FALSE
            /\ UNCHANGED verifies
  /\ mountEffect' = NoEffect
  /\ seenDeps' = IF mountEffect.due THEN seenDeps ELSE AuthDeps
  /\ UNCHANGED <<routeMounted, routeId, isSessionValid, lastVerify>>
  /\ UNCHANGED <<chatVars, uiVars, authVars, sessVars, vizVars,
                 settingsVars, dataVars, uploaderVars, pairVars, loaderVars>>

\* what verifySession resolves to: false without a token, status.active of
\* the response, false when the request fails
VerifyOutcomes == {"active", "inactive", "failed"}
VerifyResult(v, outcome) == verifies[v].token # NULL /\ outcome = "active"

\* verifySession of call v resolves; checkSession sets isSessionValid and
\* isVerifying of its instance if that is still mounted
verifyDone(v, outcome) ==
  /\ v \in 1..Len(verifies)
  /\ verifies[v].st = "pending"
  /\ ~EffectDue
  /\ verifies' = [verifies EXCEPT ![v].st = "done"]
  /\ IF routeMounted /\ verifies[v].inst = routeId
       THEN /\ isSessionValid' = VerifyResult(v, outcome)
            /\ isVerifying' = FALSE
            /\ lastVerify' = IF VerifyResult(v, outcome) THEN "true" ELSE "false"
       ELSE UNCHANGED <<isSessionValid, isVerifying, lastVerify>>
  /\ UNCHANGED <<routeMounted, routeId, mountEffect, seenDeps>>
  /\ UNCHANGED <<chatVars, uiVars, authVars, sessVars, vizVars,
                 settingsVars, dataVars, uploaderVars, pairVars, loaderVars>>

\* <Navigate to="/login" replace />: the route changes, the instance and
\* its children unmount
navigateToLogin ==
  /\ routeMounted /\ RouteRender = "redirect"
  /\ routeMounted' = FALSE
  /\ mountEffect' = NoEffect
  /\ IF settingsMounted THEN SettingsUnmount ELSE UNCHANGED settingsVars
  /\ UNCHANGED <<routeId, isVerifying, isSessionValid, seenDeps, verifies, lastVerify>>
  /\ UNCHANGED <<chatVars, uiVars, authVars, sessVars, vizVars,
                 dataVars, uploaderVars, pairVars, loaderVars>>

\* the Settings page is shown as the children of the route
routeOpenSettings ==
  /\ routeMounted /\ RouteRender = "children" /\ ~EffectDue
  /\ openSettings

\* the Log Out button of the Settings page, and the DELETE settling
routeLogout == ~EffectDue /\ logout
routeLogoutSettle(ok) == ~EffectDue /\ logoutSettle(ok)

\* the login form, on the /login route
routeLogin(model, agent) == ~routeMounted /\ login(model, agent)
routeLoginFulfil(c, sid) == ~routeMounted /\ loginFulfil(c, sid)
routeLoginReject(c, e) == ~routeMounted /\ loginReject(c, e)

\* the page is opened on a protected route or on /login, with or without a
\* stored session
InitRoute ==
  /\ messageHistory = <<>>
  /\ calls = <<>>
  /\ messages = <<>>
  /\ input = ""
  /\ isLoading = FALSE
  /\ error = NULL
  /\ dataLoaded = FALSE
  /\ uiSends = <<>>
  /\ lastThrow = NULL
  /\ ifaceMounted = FALSE
  /\ token = NULL
  /\ isAuthenticated = FALSE
  /\ authLoading = TRUE
  /\ logoutPending = FALSE
  /\ deleteLog = <<>>
  /\ user = NoUser
  /\ authError = NULL
  /\ logins = <<>>
  /\ InitSettingsIdle
  /\ InitDataIdle
  /\ InitUploaderIdle
  /\ InitPairIdle
  /\ InitLoaderIdle
  /\ \/ InitRouteIdle
     \/ /\ routeMounted = TRUE
        /\ routeId = 1
        /\ isVerifying = TRUE
        /\ isSessionValid = FALSE
        /\ mountEffect = [due |-> TRUE, isAuthenticated |-> FALSE, token |-> NULL]
        /\ seenDeps = NoDeps
        /\ verifies = <<>>
        /\ lastVerify = "none"
  /\ \/ lsToken = NULL /\ lsUser = NULL
     \/ \E u \in StoredSessions : lsToken = u.sessionId /\ lsUser = JSONStringify(u)
  /\ lsExpiry = NoExpiry
  /\ now = 0
  /\ pingInterval = FALSE
  /\ nextPing = 0
  /\ timers = 0
  /\ pingsPending = 0
  /\ ret = [op |-> "none", value |-> NULL]
  /\ InitVizIdle

NextRoute ==
  \/ initializeAuth
  \/ routeMount
  \/ checkSession
  \/ \E v \in 1..MaxVerifies, outcome \in VerifyOutcomes : verifyDone(v, outcome)
  \/ navigateToLogin
  \/ routeOpenSettings
  \/ routeLogout
  \/ \E ok \in BOOLEAN : routeLogoutSettle(ok)
  \/ \E ch \in LoginChoices : routeLogin(ch[1], ch[2])
  \/ \E c \in 1..MaxLogins, sid \in CreateResponses : routeLoginFulfil(c, sid)
  \/ \E c \in 1..MaxLogins, e \in ErrorMessages \cup {""} : routeLoginReject(c, e)

SpecRoute == InitRoute /\ [][NextRoute]_vars

\* C23 as stated: children are rendered only when isAuthenticated and
\* isSessionValid are true, and whenever the latest verifySession completed
\* for the mounted instance reported the session inactive or failed, the
\* route renders the redirect to /login.
C23_InvalidSessionRedirected ==
  routeMounted =>
    /\ (RouteRender = "children" => isAuthenticated /\ isSessionValid)
    /\ (lastVerify = "false" => RouteRender = "redirect")

\* C23, amended: children are rendered only when isAuthenticated and
\* isSessionValid are true; whenever the latest verifySession completed for
\* the mounted instance reported the session inactive or failed, the
\* children are not rendered, and the route renders the redirect to /login
\* unless AuthContext's isLoading is true, in which case it renders the loader.
C23_ChildrenOnlyWhenVerified ==
  routeMounted =>
    /\ (RouteRender = "children" => isAuthenticated /\ isSessionValid)
    /\ (lastVerify = "false" =>
          /\ RouteRender # "children"
          /\ RouteRender = (IF authLoading THEN "loader" ELSE "redirect"))

\* an authenticated user's verification reported the session inactive or
\* failed, nothing is loading, and the route renders the redirect
C23_Witness ==
  /\ routeMounted
  /\ isAuthenticated /\ ~authLoading
  /\ \E v \in 1..Len(verifies) : verifies[v].inst = routeId /\ verifies[v].st = "done"
  /\ lastVerify = "false"
  /\ RouteRender = "redirect"

\* C24: while a session is stored and no verification has reported it
\* inactive or failed, a mounted ProtectedRoute never renders the redirect
\* to /login, and it renders the loader until auth initialization and a
\* verification have both completed.
C24_ValidSessionNotRedirected ==
  (routeMounted /\ lsToken # NULL /\ lsUser # NULL /\ lastVerify # "false") =>
    /\ RouteRender # "redirect"
    /\ (authLoading \/ lastVerify = "none") => RouteRender = "loader"

====
